---- MODULE Spec2Model ----
(***************************************************************************)
(* A model of the file ingestion engine: the storage pipeline              *)
(* (database/pipelines/storage_pipeline.py with the table operations under *)
(* database/operations) and the folder dispatcher                          *)
(* (pipeline/integrated_reader.py).                                        *)
(*                                                                         *)
(* Spec          the storage pipeline: concurrent store_file_complete      *)
(*               calls against the shared tables.                          *)
(* SpecBatchHash the buffered hash writes of BatchHashOperations.          *)
(* SpecDispatch  one run of process_folder over a folder of files.         *)
(* SpecContent   concurrent store_content_chunks calls, chunk by chunk.    *)
(* SpecWordBatch concurrent flushes of word batches.                       *)
(* SpecShutdown  shutdown of the reader with tasks in flight.               *)
(* SpecStaging   concurrent extractions naming their extraction folders.   *)
(* SpecTokenizer one call of the tokenizer of ContentProcessor.            *)
(* SpecRouter    the priority and the route of one file.                   *)
(* SpecLookup    check_duplicate over the rows of stored files.            *)
(* SpecChunker   one split of a token list into chunks.                    *)
(* SpecRetry     one call of _retry_with_backoff.                           *)
(* SpecWordPathBatch  adds to the word-path buffer during its flush.       *)
(* SpecWordCache the word cache under lookups, batch inserts and flushes.  *)
(* SpecCheckpoint  concurrent mark_file_processed calls on a checkpoint.   *)
(* SpecManaged   the states of managed threads under pause/resume/stop.   *)
(***************************************************************************)
EXTENDS Integers, Sequences, FiniteSets, TLC

(***************************************************************************)
(* Bounds of the model.                                                    *)
(***************************************************************************)
MaxCalls == 2
MaxFaults == 1
MaxBatch == 3
\* BatchHashOperations.batch_size, 500 in the source, scaled down.
batch_size == 2
MaxFiles == 3
MaxNest == 6
MaxFutures == 2
MaxDirs == 4
MaxText == 4
MaxPos == 3
MaxMatches == 3
MaxFifties == 22
\* failure_window and failure_threshold of the reader, scaled down.
FailureWindow == 2
FailureThreshold == 1
\* Tuples added to the word-path buffer in a run.
MaxPairs == 4
\* Values taken from the id sequence of words in a run.
MaxSerial == 4
\* Files of the folder a checkpoint is kept for.
MaxMarks == 3
\* Managed threads.
MaxThreads == 2

(***************************************************************************)
(* Program constants.                                                      *)
(***************************************************************************)
LargeContentLen == 100000
MAX_RECURSION_DEPTH == 5
BatchSize == 10
\* _retry_with_backoff: max_retries, and initial_delay in milliseconds.
max_retries == 3
initial_delay == 100

Calls == 1..MaxCalls

\* Digests of the files that are ingested (valid SHA-256 values).
Digests == {"d1", "d2"}
\* The values store_file_complete treats as "no hash".
Sentinels == {"", "N/A", "SKIPPED_LARGE_FILE", "ERROR"}
\* One source, two sides: ids of the rows of sources and sides.
SourceId == 3
Sides == {1, 2}
NoId == 0
\* A StorageResponse instance where a path id is expected: process_folder hands
\* the response of the container's store_file_complete to _store_extracted_files
\* as parent_path_id.
ResponseObject == -1

(***************************************************************************)
(* The text the flattener returns for a result, with what the tokenizer    *)
(* makes of it: len is len(text), blank is (text.strip() == ""), toks the  *)
(* words extract_words_with_punctuation returns, in order.                 *)
(***************************************************************************)
TEmpty == [len |-> 0, blank |-> TRUE, toks |-> <<>>]
TPunct == [len |-> 3, blank |-> FALSE, toks |-> <<>>]
TShort == [len |-> 5, blank |-> FALSE, toks |-> <<"a", "b", "a">>]
TEdge == [len |-> LargeContentLen, blank |-> FALSE, toks |-> <<"b">>]
TLarge == [len |-> LargeContentLen + 1, blank |-> FALSE, toks |-> <<"a">>]
Texts == {TEmpty, TPunct, TShort, TEdge, TLarge}

\* The words extract_words makes of the title (the file name, or the result's
\* title or subject): a name of punctuation only gives none.
Titles == {<<>>, <<"t">>}

\* result['Content'] as store_file_complete reads it: it carries an 'error' key
\* (and its text is then not looked at) or it flattens to a text; with the title
\* derived for it.
Results ==
  {[err |-> TRUE, text |-> TShort, title |-> <<"t">>],
   [err |-> FALSE, text |-> TEmpty, title |-> <<"t">>],
   [err |-> FALSE, text |-> TPunct, title |-> <<>>],
   [err |-> FALSE, text |-> TShort, title |-> <<"t">>],
   [err |-> FALSE, text |-> TEdge, title |-> <<>>],
   [err |-> FALSE, text |-> TLarge, title |-> <<"t">>]}

VARIABLES
  hashs,               \* table hashs: set of rows [id, hash, source_id, side_id]
  paths,               \* table paths: sequence of rows, the index is the id
  contents,            \* table contents: sequence of rows [path_id, data]
  words,               \* table words: sequence of word texts, the index is the id
  words_paths,         \* table words_paths: set of rows [path_id, word_id, word_count]
  titles,              \* table titles_content: sequence of rows
  call,                \* the store_file_complete calls: position and locals
  pool,                \* content tasks submitted to the storage pool, not yet run
  stats,               \* StoragePipeline.stats
  enable_concurrency,  \* StoragePipeline.enable_concurrency
  faults,              \* storage operations that raised so far
  hash_batch,          \* BatchHashOperations._hash_batch
  hash_flush,          \* the last flush_hash_batch: the batch it was given, its answer
  chunk_calls,         \* the store_content_chunks calls: their list, the chunks written
  word_flush,          \* the batch_insert_words calls: their words, their word_id_map
  files,               \* the files of the folder in priority order: their routes
  enable_storage,      \* IntegratedFileReader.enable_storage
  dpc,                 \* where process_folder is
  tasks,               \* the submitted tasks in submission order
  submitted_count,     \* individual files submitted
  next_file,           \* the next individual file to submit
  processed,           \* processed_futures, then processed_pool_tasks
  collected,           \* tasks whose result the dispatcher has taken
  results,             \* self.results
  recent_failures,     \* self.recent_failures
  dstats,              \* self.stats of the reader
  breaker_warned,      \* _check_circuit_breaker has answered True in this run
  overdue,             \* tasks not done when a 3600 s wait for them ended
  lifecycle,           \* the executors of the reader, their futures, where shutdown is
  staging,             \* the extraction folders that exist, the extractions under way
  tokenizer,           \* the call of the content processor: its argument, its result
  router,              \* the file the reader looked at: its priority or its route
  lookup,              \* the last check_duplicate on its own: its digest, its answer
  chunker,             \* the last split of a token list: its length, the chunk lengths
  retry,               \* _retry_with_backoff: one call of it
  word_path_batch,     \* BatchWordPathOperations: buffer and flush
  word_cache,          \* WordOperations: _word_cache and the words it names
  checkpoint,          \* CheckpointManager: one checkpoint file
  managed              \* ManagedThread: the metrics and events of the threads

vars ==
  <<hashs, paths, contents, words, words_paths, titles, call, pool, stats,
    enable_concurrency, faults, hash_batch, hash_flush, chunk_calls, word_flush,
    files, enable_storage,
    dpc, tasks, submitted_count, next_file, processed, collected, results,
    recent_failures, dstats, breaker_warned, overdue, lifecycle,
    staging, tokenizer, router, lookup,
    chunker,
    retry,
    word_path_batch,
    word_cache,
    checkpoint,
    managed>>

tables == <<hashs, paths, contents, words, words_paths, titles>>

\* The state of the storage pipeline, and the state outside it.
pipeline == <<call, pool, stats, enable_concurrency, faults>>
batches == <<hash_batch, hash_flush, chunk_calls, word_flush>>
\* The state of the parts checked on their own.
units == <<lifecycle, staging, tokenizer, router, lookup, chunker, retry, word_path_batch, word_cache, checkpoint, managed>>
beside_lifecycle == <<staging, tokenizer, router, lookup, chunker, retry, word_path_batch, word_cache, checkpoint, managed>>
beside_staging == <<lifecycle, tokenizer, router, lookup, chunker, retry, word_path_batch, word_cache, checkpoint, managed>>
beside_tokenizer == <<lifecycle, staging, router, lookup, chunker, retry, word_path_batch, word_cache, checkpoint, managed>>
beside_router == <<lifecycle, staging, tokenizer, lookup, chunker, retry, word_path_batch, word_cache, checkpoint, managed>>
beside_lookup == <<lifecycle, staging, tokenizer, router, chunker, retry, word_path_batch, word_cache, checkpoint, managed>>
beside_chunker == <<lifecycle, staging, tokenizer, router, lookup, retry, word_path_batch, word_cache, checkpoint, managed>>
beside_retry == <<lifecycle, staging, tokenizer, router, lookup, chunker, word_path_batch, word_cache, checkpoint, managed>>
beside_word_path_batch == <<lifecycle, staging, tokenizer, router, lookup, chunker, retry, word_cache, checkpoint, managed>>
beside_word_cache == <<lifecycle, staging, tokenizer, router, lookup, chunker, retry, word_path_batch, checkpoint, managed>>
beside_checkpoint == <<lifecycle, staging, tokenizer, router, lookup, chunker, retry, word_path_batch, word_cache, managed>>
beside_managed == <<lifecycle, staging, tokenizer, router, lookup, chunker, retry, word_path_batch, word_cache, checkpoint>>
dispatcher ==
  <<files, enable_storage, dpc, tasks, submitted_count, next_file, processed,
    collected, results, recent_failures, dstats, breaker_warned, overdue>>

(***************************************************************************)
(* Helpers.                                                                *)
(***************************************************************************)
Max(S) == CHOOSE x \in S : \A y \in S : y <= x

Range(f) == {f[i] : i \in DOMAIN f}

\* The sequences that list every element of the finite set S once.
Orderings(S) ==
  {f \in [1..Cardinality(S) -> S] : \A i, j \in 1..Cardinality(S) : i # j => f[i] # f[j]}

\* The mutant of Count: a word is counted once however often it occurs.
CountPresence(q, x) == IF \E i \in DOMAIN q : q[i] = x THEN 1 ELSE 0

\* Number of positions of the sequence q that hold x.
Count(q, x) == Cardinality({i \in DOMAIN q : q[i] = x})

(***************************************************************************)
(* Table hashs (models/schema.py, operations/hash_operations.py).          *)
(***************************************************************************)
HashRows(file_hash, source_id, side_id) ==
  {r \in hashs : r.hash = file_hash /\ r.source_id = source_id /\ r.side_id = side_id}

\* The mutant of SelectHashId: the SELECT finds no row.
SelectHashIdNone(file_hash, source_id, side_id) == NoId

\* SELECT id FROM hashs WHERE hash = .. AND source_id = .. AND side_id = ..
SelectHashId(file_hash, source_id, side_id) ==
  IF HashRows(file_hash, source_id, side_id) = {}
  THEN NoId
  ELSE (CHOOSE r \in HashRows(file_hash, source_id, side_id) : TRUE).id

\* The mutant of UniqueViolation: the table without its UNIQUE constraint.
UniqueViolationDropped(file_hash, source_id, side_id) == FALSE

\* UNIQUE (hash, source_id, side_id): an INSERT of a triple that is present fails.
UniqueViolation(file_hash, source_id, side_id) ==
  HashRows(file_hash, source_id, side_id) # {}

NextHashId == Cardinality(hashs) + 1

\* The mutant of check_duplicate: source and side compared with the wrong columns.
check_duplicate_swapped(file_hash, source_id, side_id) ==
  IF file_hash \in Sentinels
  THEN <<FALSE, NoId>>
  ELSE LET hash_id == SelectHashId(file_hash, side_id, source_id)
           ps == {p \in DOMAIN paths : paths[p].hash_id = hash_id}
       IN  IF hash_id = NoId \/ ps = {} THEN <<FALSE, NoId>> ELSE <<TRUE, Max(ps)>>

\* HashOperations.check_duplicate: <<is_duplicate, existing path_id or NoId>>.
check_duplicate(file_hash, source_id, side_id) ==
  IF file_hash \in Sentinels
  THEN <<FALSE, NoId>>
  ELSE LET hash_id == SelectHashId(file_hash, source_id, side_id)
           ps == {p \in DOMAIN paths : paths[p].hash_id = hash_id}
       IN  IF hash_id = NoId \/ ps = {} THEN <<FALSE, NoId>> ELSE <<TRUE, Max(ps)>>

(***************************************************************************)
(* Tables words, contents, words_paths, titles_content.                    *)
(***************************************************************************)
WordId(ws, w) == CHOOSE i \in DOMAIN ws : ws[i] = w

\* get_or_create_word_id for the words of the sequence order, one after another.
RECURSIVE EnsureWords(_, _)
EnsureWords(ws, order) ==
  IF order = <<>> THEN ws
  ELSE EnsureWords(IF Head(order) \in Range(ws) THEN ws ELSE Append(ws, Head(order)),
                   Tail(order))

\* zlib.compress(pickle.dumps(chunk)) and its inverse.
Compress(chunk) == <<"zlib", <<"pickle", chunk>>>>
Decompress(data) == data[2][2]

\* The mutant of ChunkSize: one chunk size for every list.
ChunkSizeFixed(n) == 100000

\* store_content_chunks, lines 33-36: the chunk size by the length of the list.
ChunkSize(n) == IF n < 1000000 THEN 100000 ELSE 5000

\* The mutant of ChunksOf: the slices stop before a last slice that is not full.
ChunksFull(q, size) ==
  [i \in 1..(Len(q) \div size) |-> SubSeq(q, (i - 1) * size + 1, i * size)]

\* [q[i:i+size] for i in range(0, len(q), size)]
ChunksOf(q, size) ==
  LET n == Len(q)
      k == (n + size - 1) \div size
  IN  [i \in 1..k |-> SubSeq(q, (i - 1) * size + 1, IF i * size < n THEN i * size ELSE n)]

\* store_content_chunks: the list cut into chunks, one row per chunk.
Chunks(token_tuples) == ChunksOf(token_tuples, ChunkSize(Len(token_tuples)))

ContentRows(token_tuples, path_id) ==
  [i \in DOMAIN Chunks(token_tuples) |->
     [path_id |-> path_id, data |-> Compress(Chunks(token_tuples)[i])]]

\* Build token tuples with IDs: punctuation and spacing ids are stored as None.
TokenTuples(ws, toks) == [i \in DOMAIN toks |-> <<WordId(ws, toks[i]), NoId, NoId, NoId>>]

\* store_word_frequencies: INSERT .. ON CONFLICT (path_id, word_id) DO UPDATE.
UpsertFrequencies(wp, ws, toks, path_id) ==
  {r \in wp : ~(r.path_id = path_id /\ r.word_id \in {WordId(ws, w) : w \in Range(toks)})}
  \cup {[path_id |-> path_id, word_id |-> WordId(ws, w), word_count |-> Count(toks, w)] :
          w \in Range(toks)}

\* retrieve_content: the chunks of a path in id order, decompressed and joined.
RECURSIVE JoinFrom(_, _)
JoinFrom(path_id, i) ==
  IF i > Len(contents) THEN <<>>
  ELSE (IF contents[i].path_id = path_id THEN Decompress(contents[i].data) ELSE <<>>)
       \o JoinFrom(path_id, i + 1)

retrieve_content(path_id) == JoinFrom(path_id, 1)

(***************************************************************************)
(* store_file_complete (pipelines/storage_pipeline.py), one call per c.    *)
(* A call runs in the thread of its caller, so the calls interleave at     *)
(* the database operations.                                                *)
(***************************************************************************)
IdleCall ==
  [pc |-> "idle", file_hash |-> "", side |-> 1, res |-> CHOOSE r \in Results : r.err,
   parent |-> NoId, hash_id |-> NoId, path_id |-> NoId, has_readable_content |-> FALSE,
   result |-> "none", resp_path_id |-> NoId, duplicate_path_id |-> NoId,
   rows |-> 0, pred |-> {}, conflict |-> FALSE, skipped_large |-> FALSE]

Done(c) == call[c].pc = "done"

Bump(key) ==
  IF enable_concurrency THEN [stats EXCEPT ![key] = @ + 1] ELSE stats

Bump2First(key1, key2) == Bump(key1)

Bump2(key1, key2) ==
  IF enable_concurrency
  THEN [stats EXCEPT ![key1] = @ + 1, ![key2] = @ + 1]
  ELSE stats

\* The mutant of Return: every response is an Error.
ReturnError(c, result, path_id, duplicate_path_id) ==
  [call[c] EXCEPT !.pc = "done", !.result = "error", !.resp_path_id = NoId,
                  !.duplicate_path_id = NoId]

\* return StorageResponse(result=.., path_id=.., duplicate_path_id=..)
Return(c, result, path_id, duplicate_path_id) ==
  [call[c] EXCEPT !.pc = "done", !.result = result, !.resp_path_id = path_id,
                  !.duplicate_path_id = duplicate_path_id]

\* The calls, the digests and the sides are interchangeable, so they are taken
\* in the order of their names: call c begins after call c - 1 has, and "d2"
\* and side 2 are given to a call once a call has had "d1" and side 1.
Hashed(c) == call[c].pc # "idle" /\ call[c].file_hash \in Digests

DigestsToGive ==
  IF \E c \in Calls : Hashed(c) /\ call[c].file_hash = "d1" THEN Digests ELSE {"d1"}

SidesToGive ==
  IF \E c \in Calls : Hashed(c) /\ call[c].side = 1 THEN Sides ELSE {1}

\* parent_path_id: None for a file of the folder; for an extracted file the
\* path_id of the response a returned call gave for its container, or that
\* response itself.
ParentsToGive ==
  {NoId} \cup {call[a].resp_path_id : a \in {d \in Calls : call[d].result = "success"}}
         \cup (IF \E a \in Calls : Done(a) THEN {ResponseObject} ELSE {})

\* Lines 155-196: count the call, validate the hash, recompute it when it is a
\* sentinel and the file can be read. get_standardized_metadata gives
\* "SKIPPED_LARGE_FILE" as the digest of a file of 100 MiB or more; the call
\* keeps in skipped_large that its file came with it.
Start(c) ==
  /\ call[c].pc = "idle"
  /\ IF c = 1 THEN TRUE ELSE call[c - 1].pc # "idle"
  /\ \E given \in DigestsToGive \cup Sentinels, side \in SidesToGive, res \in Results,
        parent \in ParentsToGive,
        computed \in DigestsToGive \cup {"unreadable"} :
       LET begun == [call[c] EXCEPT !.file_hash = given, !.side = side, !.res = res,
                                    !.parent = parent,
                                    !.pred = {d \in Calls : Done(d)},
                                    !.skipped_large = (given = "SKIPPED_LARGE_FILE")]
       IN  \/ /\ given \in Digests
              /\ computed = given
              /\ call' = [call EXCEPT ![c] = [begun EXCEPT !.pc = "check"]]
              /\ stats' = Bump("total")
           \/ /\ given \in Sentinels
              /\ computed \in Digests
              /\ call' = [call EXCEPT ![c] =
                            [begun EXCEPT !.pc = "check", !.file_hash = computed]]
              /\ stats' = Bump("total")
           \/ /\ given \in Sentinels
              /\ computed = "unreadable"
              /\ call' = [call EXCEPT ![c] =
                            [@ EXCEPT !.pc = "done", !.file_hash = given,
                                      !.result = "invalid_hash",
                                      !.skipped_large = (given = "SKIPPED_LARGE_FILE")]]
              /\ stats' = Bump2("total", "failed")
  /\ UNCHANGED <<tables, pool, enable_concurrency, faults>>
  /\ UNCHANGED <<batches, units, dispatcher>>

\* Lines 315-323: a storage operation of call c raises, the call answers Error.
Fail(c) ==
  /\ faults < MaxFaults
  /\ faults' = faults + 1
  /\ call' = [call EXCEPT ![c] = Return(c, "error", NoId, NoId)]
  /\ stats' = Bump("failed")

\* Lines 198-209: the duplicate check.
CheckDuplicate(c) ==
  /\ call[c].pc = "check"
  /\ \/ /\ LET dup == check_duplicate(call[c].file_hash, SourceId, call[c].side)
           IN  IF dup[1]
               THEN /\ call' = [call EXCEPT ![c] = Return(c, "duplicate", NoId, dup[2])]
                    /\ stats' = Bump2("duplicates", "completed")
               ELSE /\ call' = [call EXCEPT ![c].pc = "hash"]
                    /\ UNCHANGED stats
        /\ UNCHANGED faults
     \/ Fail(c)
  /\ UNCHANGED <<tables, pool, enable_concurrency>>
  /\ UNCHANGED <<batches, units, dispatcher>>

\* store_hash, lines 29-39: the SELECT of the triple.
StoreHashSelect(c) ==
  /\ call[c].pc = "hash"
  /\ \/ /\ LET hash_id == SelectHashId(call[c].file_hash, SourceId, call[c].side)
           IN  call' = [call EXCEPT ![c] =
                 IF hash_id # NoId
                 THEN [@ EXCEPT !.pc = "meta", !.hash_id = hash_id]
                 ELSE [@ EXCEPT !.pc = "hash_insert"]]
        /\ UNCHANGED <<stats, faults>>
     \/ Fail(c)
  /\ UNCHANGED <<tables, pool, enable_concurrency>>
  /\ UNCHANGED <<batches, units, dispatcher>>

\* store_hash, lines 41-72: the INSERT; on a uniqueness violation the rollback
\* and the second SELECT.
StoreHashInsert(c) ==
  /\ call[c].pc = "hash_insert"
  /\ \/ /\ IF UniqueViolation(call[c].file_hash, SourceId, call[c].side)
           THEN /\ call' = [call EXCEPT ![c] =
                     [@ EXCEPT !.pc = "meta", !.conflict = TRUE,
                               !.hash_id = SelectHashId(call[c].file_hash, SourceId,
                                                        call[c].side)]]
                /\ UNCHANGED hashs
           ELSE /\ hashs' = hashs \cup
                     {[id |-> NextHashId, hash |-> call[c].file_hash,
                       source_id |-> SourceId, side_id |-> call[c].side]}
                /\ call' = [call EXCEPT ![c] =
                     [@ EXCEPT !.pc = "meta", !.hash_id = NextHashId, !.rows = @ + 1]]
        /\ UNCHANGED <<stats, faults>>
     \/ Fail(c) /\ UNCHANGED hashs
  /\ UNCHANGED <<paths, contents, words, words_paths, titles, pool, enable_concurrency>>
  /\ UNCHANGED <<batches, units, dispatcher>>

\* Lines 235-260 and PathOperations.store_metadata: the Path row, status Unread.
StoreMetadata(c) ==
  /\ call[c].pc = "meta"
  /\ \/ /\ paths' = Append(paths, [hash_id |-> call[c].hash_id, file_status |-> "Unread"])
        /\ call' = [call EXCEPT ![c] =
             [@ EXCEPT !.pc = "content", !.path_id = Len(paths) + 1, !.rows = @ + 1]]
        /\ UNCHANGED <<stats, faults>>
     \/ Fail(c) /\ UNCHANGED paths
  /\ UNCHANGED <<hashs, contents, words, words_paths, titles, pool, enable_concurrency>>
  /\ UNCHANGED <<batches, units, dispatcher>>

\* _store_content_pipeline(text, path_id), lines 511-536, run up to a stage:
\* "words" (store_content_chunks raised), "content" (store_word_frequencies
\* raised) or "all". The words of the text get their ids in the order given.
ContentWords(toks, order) == IF toks = <<>> THEN words ELSE EnsureWords(words, order)

ContentContents(toks, path_id, order, upto) ==
  IF toks = <<>> \/ upto = "words"
  THEN contents
  ELSE contents \o ContentRows(TokenTuples(ContentWords(toks, order), toks), path_id)

ContentFrequencies(toks, path_id, order, upto) ==
  IF toks = <<>> \/ upto # "all"
  THEN words_paths
  ELSE UpsertFrequencies(words_paths, ContentWords(toks, order), toks, path_id)

StoreContentPipeline(toks, path_id, order, upto) ==
  /\ words' = ContentWords(toks, order)
  /\ contents' = ContentContents(toks, path_id, order, upto)
  /\ words_paths' = ContentFrequencies(toks, path_id, order, upto)

\* Rows the pipeline adds to words, contents and words_paths.
RowsAdded ==
  (Len(words') - Len(words)) + (Len(contents') - Len(contents))
  + Cardinality(words_paths' \ words_paths)

\* The mutant of ReadableContent: the 'error' key of the content is not looked at.
ReadableContentIgnoringError(res) == ~res.text.blank

\* Lines 266-270: has_readable_content.
ReadableContent(res) == ~res.err /\ ~res.text.blank

\* The mutant of UsesPool: every text is handed to the pool.
UsesPoolAlways(text) == enable_concurrency

\* Line 272: large content goes to the storage pool and is not waited for.
UsesPool(text) == enable_concurrency /\ text.len > LargeContentLen

\* Lines 262-284: extract the text and store the content.
StoreContent(c) ==
  /\ call[c].pc = "content"
  /\ LET res == call[c].res
         toks == res.text.toks
         next == [call[c] EXCEPT !.pc = "title",
                                 !.has_readable_content = ReadableContent(res)]
     IN  \/ /\ ~ReadableContent(res)
            /\ call' = [call EXCEPT ![c] = next]
            /\ UNCHANGED <<words, contents, words_paths, pool, faults>>
         \/ /\ ReadableContent(res)
            /\ UsesPool(res.text)
            /\ pool' = pool \cup {[toks |-> toks, path_id |-> call[c].path_id]}
            /\ call' = [call EXCEPT ![c] = next]
            /\ UNCHANGED <<words, contents, words_paths, faults>>
         \/ /\ ReadableContent(res)
            /\ ~UsesPool(res.text)
            /\ \E order \in Orderings(Range(toks)) :
                 StoreContentPipeline(toks, call[c].path_id, order, "all")
            /\ call' = [call EXCEPT ![c] = [next EXCEPT !.rows = @ + RowsAdded]]
            /\ UNCHANGED <<pool, faults>>
         \/ /\ ReadableContent(res)
            /\ ~UsesPool(res.text)
            /\ toks # <<>>
            /\ faults < MaxFaults
            /\ faults' = faults + 1
            /\ \E order \in Orderings(Range(toks)), upto \in {"words", "content"} :
                 StoreContentPipeline(toks, call[c].path_id, order, upto)
            /\ call' = [call EXCEPT ![c] = [next EXCEPT !.rows = @ + RowsAdded]]
            /\ UNCHANGED pool
  /\ UNCHANGED <<hashs, paths, titles, stats, enable_concurrency>>
  /\ UNCHANGED <<batches, units, dispatcher>>

\* A worker of the storage pool runs a submitted _store_content_pipeline.
PoolRun(t) ==
  /\ t \in pool
  /\ pool' = pool \ {t}
  /\ \E order \in Orderings(Range(t.toks)) :
       StoreContentPipeline(t.toks, t.path_id, order, "all")
  /\ UNCHANGED <<hashs, paths, titles, call, stats, enable_concurrency, faults>>
  /\ UNCHANGED <<batches, units, dispatcher>>

\* TitleOperations.store_title: Branch under a parent, Main without; the parent's
\* title row is looked up by the parent's path id.
TitleRow(path_id, parent_path_id, word_ids) ==
  LET parents == {i \in DOMAIN titles : titles[i].path_id = parent_path_id}
  IN  [path_id |-> path_id,
       title_status |-> IF parent_path_id # NoId THEN "Branch" ELSE "Main",
       title_content_id |->
         IF parent_path_id # NoId /\ parents # {}
         THEN CHOOSE i \in parents : \A j \in parents : i <= j
         ELSE NoId,
       title_data |-> Compress(word_ids)]

\* Lines 286-293 and _store_title_pipeline. With a StorageResponse as parent the
\* SELECT of store_title raises (the value cannot be adapted to SQL) after the
\* words of the title were stored, and the exception is logged as a warning.
StoreTitle(c) ==
  /\ call[c].pc = "title"
  /\ LET title == call[c].res.title
         ws == EnsureWords(words, title)
     IN  \/ /\ title = <<>>
            /\ call' = [call EXCEPT ![c].pc = "status"]
            /\ UNCHANGED <<words, titles, faults>>
         \/ /\ title # <<>>
            /\ call[c].parent = ResponseObject
            /\ words' = ws
            /\ call' = [call EXCEPT ![c] =
                 [@ EXCEPT !.pc = "status", !.rows = @ + Len(ws) - Len(words)]]
            /\ UNCHANGED <<titles, faults>>
         \/ /\ title # <<>>
            /\ call[c].parent # ResponseObject
            /\ words' = ws
            /\ titles' = Append(titles,
                 TitleRow(call[c].path_id, call[c].parent,
                          [i \in DOMAIN title |-> WordId(ws, title[i])]))
            /\ call' = [call EXCEPT ![c] =
                 [@ EXCEPT !.pc = "status", !.rows = @ + Len(ws) - Len(words)]]
            /\ UNCHANGED faults
         \/ /\ title # <<>>
            /\ faults < MaxFaults
            /\ faults' = faults + 1
            /\ words' = ws
            /\ call' = [call EXCEPT ![c] =
                 [@ EXCEPT !.pc = "status", !.rows = @ + Len(ws) - Len(words)]]
            /\ UNCHANGED titles
  /\ UNCHANGED <<hashs, paths, contents, words_paths, pool, stats, enable_concurrency>>
  /\ UNCHANGED <<batches, units, dispatcher>>

\* The mutant of update_file_status: the UPDATE has no WHERE clause.
update_every_status(path_id, status) ==
  [p \in DOMAIN paths |-> [paths[p] EXCEPT !.file_status = status]]

\* PathOperations.update_file_status.
update_file_status(path_id, status) ==
  IF status \in {"Read", "Unread"} /\ path_id \in DOMAIN paths
  THEN [paths EXCEPT ![path_id].file_status = status]
  ELSE paths

\* Lines 295-313: the status update and the Success response.
UpdateStatus(c) ==
  /\ call[c].pc = "status"
  /\ \/ /\ paths' = update_file_status(call[c].path_id,
                      IF call[c].has_readable_content THEN "Read" ELSE "Unread")
        /\ UNCHANGED faults
     \/ /\ faults < MaxFaults
        /\ faults' = faults + 1
        /\ UNCHANGED paths
  /\ call' = [call EXCEPT ![c] = Return(c, "success", call[c].path_id, NoId)]
  /\ stats' = Bump("completed")
  /\ UNCHANGED <<hashs, contents, words, words_paths, titles, pool, enable_concurrency>>
  /\ UNCHANGED <<batches, units, dispatcher>>

(***************************************************************************)
(* Properties of the storage pipeline.                                     *)
(***************************************************************************)
SameTriple(a, b) ==
  /\ Hashed(a) /\ Hashed(b)
  /\ call[a].file_hash = call[b].file_hash
  /\ call[a].side = call[b].side

\* b is the second of two calls for one triple: a returned Success before b
\* began, b has returned without a database error, no other call had the triple.
SecondOfTwo(a, b) ==
  /\ a # b
  /\ a \in call[b].pred
  /\ call[a].result = "success"
  /\ SameTriple(a, b)
  /\ Done(b) /\ call[b].result # "error"
  /\ \A d \in Calls \ {a, b} : ~SameTriple(a, d)

\* C1: when store_file_complete is called twice, one call after the other, for
\* the same digest under the same source and side, the second call returns
\* Duplicate with the path_id the first call created and adds no row to hashs,
\* paths, contents, words or words_paths.
C1_SecondCallIsDuplicate ==
  \A a, b \in Calls :
    SecondOfTwo(a, b) =>
      /\ call[b].result = "duplicate"
      /\ call[b].duplicate_path_id = call[a].path_id
      /\ call[b].rows = 0

C1_Witness ==
  \E a, b \in Calls :
    /\ SecondOfTwo(a, b)
    /\ call[b].result = "duplicate"
    /\ call[a].path_id \in DOMAIN paths

\* C3: for any interleaving of concurrent store_hash calls with the same
\* (digest, source_id, side_id), hashs holds exactly one row for the triple
\* and every call that returned has the id of that row.
C3_OneHashRowPerTriple ==
  /\ \A h \in Digests, s \in Sides : Cardinality(HashRows(h, SourceId, s)) <= 1
  /\ \A c \in Calls :
       call[c].hash_id # NoId =>
         {r.id : r \in HashRows(call[c].file_hash, SourceId, call[c].side)}
           = {call[c].hash_id}

\* Two calls were both past the SELECT of one triple before either inserted:
\* one inserted the row, the other ran into the uniqueness violation.
C3_Witness ==
  \E a, b \in Calls :
    /\ a # b
    /\ SameTriple(a, b)
    /\ call[a].hash_id # NoId /\ ~call[a].conflict
    /\ call[b].hash_id # NoId /\ call[b].conflict

\* The Content rows _store_content_pipeline writes for the text of call c.
HasContentRows(c) == \E i \in DOMAIN contents : contents[i].path_id = call[c].path_id

\* C5: after store_file_complete returns Success, the status of the file's path
\* is Read if and only if non-empty text was tokenized and its Content rows
\* were stored for the path; otherwise the status is Unread. (Stated for the
\* runs in which no storage operation raised.)
C5_ReadIffContentStored ==
  \A c \in Calls :
    (faults = 0 /\ call[c].result = "success") =>
      /\ paths[call[c].path_id].file_status \in {"Read", "Unread"}
      /\ paths[call[c].path_id].file_status = "Read" <=> HasContentRows(c)

\* C6: the writes of one file happen in the listed order, and the status of
\* its path becomes Read only after all Content rows of the file have been
\* committed: no content task of a path that is Read is still to run. (Stated
\* for the runs in which no storage operation raised.)
C6_ReadAfterContentCommitted ==
  \A c \in Calls :
    (faults = 0 /\ call[c].path_id # NoId
       /\ paths[call[c].path_id].file_status = "Read") =>
      /\ ~\E t \in pool : t.path_id = call[c].path_id
      /\ call[c].res.text.toks # <<>> => HasContentRows(c)

\* b is a call for a triple whose Hash row is an orphan when b begins: the one
\* earlier call for the triple, a, stored the hash and failed at the metadata.
AfterOrphan(a, b) ==
  /\ a # b
  /\ a \in call[b].pred
  /\ SameTriple(a, b)
  /\ call[a].result = "error" /\ call[a].hash_id # NoId /\ call[a].path_id = NoId
  /\ \A d \in Calls \ {a, b} : ~SameTriple(a, d)

\* C14: when a Hash row exists for the triple and no Path references it, the
\* duplicate check answers (false, null) and the store that follows reuses the
\* row: the Path it creates references the existing hash_id and no second Hash
\* row is created.
C14_OrphanHashReused ==
  \A a, b \in Calls :
    AfterOrphan(a, b) =>
      /\ call[b].result # "duplicate"
      /\ call[b].hash_id \in {NoId, call[a].hash_id}
      /\ call[b].path_id # NoId => paths[call[b].path_id].hash_id = call[a].hash_id
      /\ Cardinality(HashRows(call[b].file_hash, SourceId, call[b].side)) = 1

C14_Witness ==
  \E a, b \in Calls :
    /\ AfterOrphan(a, b)
    /\ call[b].result = "success"
    /\ paths[call[b].path_id].hash_id = call[a].hash_id

\* C15: once the Path row of a call is inserted, a failure of the content
\* storage, of the title storage or of the status update does not change the
\* outcome: the call returns Success with the id of that row.
C15_SuccessAfterMetadata ==
  \A c \in Calls :
    call[c].path_id # NoId =>
      /\ call[c].result \in {"none", "success"}
      /\ Done(c) => (call[c].result = "success" /\ call[c].resp_path_id = call[c].path_id)

\* A call returned Success although store_word_frequencies raised, the title
\* storage raised or the status update raised.
C15_Witness ==
  \E c \in Calls :
    /\ call[c].result = "success"
    /\ faults > 0
    /\ LET p == call[c].path_id
           res == call[c].res
       IN  \/ /\ ReadableContent(res) /\ res.text.toks # <<>> /\ ~UsesPool(res.text)
              /\ ~\E r \in words_paths : r.path_id = p
           \/ /\ res.title # <<>>
              /\ ~\E i \in DOMAIN titles : titles[i].path_id = p
           \/ /\ call[c].has_readable_content
              /\ paths[p].file_status = "Unread"

C12_BranchUnderParentTitle ==
  /\ \A c \in Calls :
       (faults = 0 /\ call[c].result = "success" /\ call[c].parent # NoId) =>
         \E i \in DOMAIN titles :
           /\ titles[i].path_id = call[c].path_id
           /\ titles[i].title_status = "Branch"
           /\ titles[i].title_content_id \in DOMAIN titles
           /\ call[c].parent # ResponseObject =>
                titles[titles[i].title_content_id].path_id = call[c].parent
  /\ \A i \in DOMAIN titles :
       titles[i].title_status = "Branch" => titles[i].title_content_id # NoId

\* C18: once the status of a Path is Read, no step of the pipeline sets it
\* back to Unread: not a later store_file_complete of any file (the same
\* content included) and not an update_file_status the pipeline makes.
C18_ReadNeverReverted ==
  [][\A p \in DOMAIN paths :
       paths[p].file_status = "Read" => paths'[p].file_status = "Read"]_vars

\* A file was stored as Read and a later call for the same content has returned.
C18_Witness ==
  \E a, b \in Calls :
    /\ SecondOfTwo(a, b)
    /\ call[b].result = "duplicate"
    /\ paths[call[a].path_id].file_status = "Read"

\* C34: when two store calls for one (digest, source, side) run concurrently
\* (neither had returned when the other began), at most one of them creates a
\* Path row, and paths never holds two rows for the triple.
C34_OnePathRowPerTriple ==
  \A a, b \in Calls :
    (a # b /\ SameTriple(a, b) /\ a \notin call[b].pred /\ b \notin call[a].pred) =>
      /\ ~(call[a].path_id # NoId /\ call[b].path_id # NoId)
      /\ Cardinality({i \in DOMAIN paths :
                        \E r \in HashRows(call[a].file_hash, SourceId, call[a].side) :
                          paths[i].hash_id = r.id}) <= 1

\* C37: with concurrency enabled every store_file_complete call adds 1 to
\* total and, when it returns, 1 to completed or to failed; a Duplicate adds 1
\* to duplicates and to completed. So while no call is in progress
\* total = completed + failed, and duplicates <= completed always.
C37_CountersBalance ==
  enable_concurrency =>
    /\ stats["total"] = Cardinality({c \in Calls : call[c].pc # "idle"})
    /\ stats["completed"] + stats["failed"] = Cardinality({c \in Calls : Done(c)})
    /\ stats["failed"] =
         Cardinality({c \in Calls : Done(c) /\ call[c].result \in {"error", "invalid_hash"}})
    /\ stats["duplicates"] =
         Cardinality({c \in Calls : Done(c) /\ call[c].result = "duplicate"})
    /\ stats["duplicates"] <= stats["completed"]
    /\ (\A c \in Calls : call[c].pc \in {"idle", "done"}) =>
         stats["total"] = stats["completed"] + stats["failed"]

C37_Witness ==
  /\ enable_concurrency
  /\ \A c \in Calls : Done(c)
  /\ stats["total"] = 2 /\ stats["duplicates"] = 1 /\ stats["completed"] = 2

\* C31: a file larger than 100 MiB is never hashed by the storage pipeline: it
\* keeps the digest "SKIPPED_LARGE_FILE", store_file_complete answers
\* InvalidHash for it, and no Hash or Path row is made for it.
C31_LargeFileNeverHashed ==
  \A c \in Calls :
    call[c].skipped_large =>
      /\ call[c].file_hash = "SKIPPED_LARGE_FILE"
      /\ call[c].rows = 0
      /\ Done(c) => call[c].result = "invalid_hash"

(***************************************************************************)
(* BatchHashOperations (operations/batch_operations.py): hashes buffered   *)
(* and written by one flush.                                               *)
(***************************************************************************)
\* create_schema: the unique indexes of hashs, each the set of its columns.
HashsUniqueIndexes == {{"id"}, {"hash", "source_id", "side_id"}}

\* add_hash_to_batch: the tuple is appended as (hash, side_id, source_id).
AddHashToBatch ==
  /\ Len(hash_batch) < MaxBatch
  /\ \E file_hash \in Digests, side_id \in Sides :
       hash_batch' = Append(hash_batch, <<file_hash, side_id, SourceId>>)
  /\ UNCHANGED <<tables, pipeline, hash_flush, chunk_calls, word_flush, units, dispatcher>>

\* INSERT INTO hashs .. ON CONFLICT (hash, source_id) DO UPDATE SET side_id = ..
\* for the tuples of the batch in order, on the table hs: the row of the same
\* hash and source gets the new side, else a row is added.
RECURSIVE UpsertHashes(_, _)
UpsertHashes(hs, batch) ==
  IF batch = <<>> THEN hs
  ELSE LET t == Head(batch)
           old == {r \in hs : r.hash = t[1] /\ r.source_id = t[3]}
       IN  UpsertHashes(
             IF old = {}
             THEN hs \cup {[id |-> Cardinality(hs) + 1, hash |-> t[1],
                            source_id |-> t[3], side_id |-> t[2]]}
             ELSE (hs \ old) \cup {[r EXCEPT !.side_id = t[2]] : r \in old},
             Tail(batch))

\* The substrings _retry_with_backoff looks for in the message of an error to
\* call it retryable.
retryable_errors ==
  {"connection", "timeout", "locked", "busy", "deadlock", "network", "temporary"}

\* What the database answers to the statement of a flush: nothing wrong, or an
\* error whose message holds the given word.
FlushErrors == {"none", "connection", "syntax"}

\* flush_hash_batch: the statement names (hash, source_id) as its conflict
\* target; without a unique index on exactly these columns it raises. On any
\* exception the transaction is rolled back, the error is printed and the
\* function returns with the batch kept: the statement ran once.
FlushHashBatch ==
  /\ IF hash_batch = <<>>
     THEN /\ hash_flush' = [batch |-> <<>>, answer |-> "empty", error |-> "none",
                            attempts |-> 0]
          /\ UNCHANGED <<hashs, hash_batch>>
     ELSE \E e \in FlushErrors :
       IF e = "none" /\ {"hash", "source_id"} \in HashsUniqueIndexes
       THEN /\ hashs' = UpsertHashes(hashs, hash_batch)
            /\ hash_batch' = <<>>
            /\ hash_flush' = [batch |-> hash_batch, answer |-> "stored",
                              error |-> "none", attempts |-> 1]
       ELSE /\ hash_flush' = [batch |-> hash_batch, answer |-> "error",
                              error |-> IF e = "none" THEN "constraint" ELSE e,
                              attempts |-> 1]
            /\ UNCHANGED <<hashs, hash_batch>>
  /\ UNCHANGED <<paths, contents, words, words_paths, titles, pipeline, dispatcher>>
  /\ UNCHANGED <<chunk_calls, word_flush, units>>

\* C4: the same digest under the same source and two different sides gives two
\* Hash rows (and a Path row each, neither a duplicate of the other): after a
\* flush of a batch that holds the digest under both sides, hashs has a row for
\* each of the two triples.
C4_TwoSidesTwoHashRows ==
  \A i, j \in DOMAIN hash_flush.batch :
    LET t == hash_flush.batch[i]
        u == hash_flush.batch[j]
    IN  (t[1] = u[1] /\ t[3] = u[3] /\ t[2] # u[2]) =>
          /\ HashRows(t[1], t[3], t[2]) # {}
          /\ HashRows(u[1], u[3], u[2]) # {}

\* C21: a flush that fails with a retryable error (its message holds one of
\* the words of retryable_errors) is attempted 3 times in all, with a backoff
\* between the attempts; a flush that fails with any other error is attempted
\* once.
C21_RetryableFlushRetried ==
  hash_flush.answer = "error" =>
    hash_flush.attempts = IF hash_flush.error \in retryable_errors THEN 3 ELSE 1

\* C22: no batch buffer ever holds more than batch_size items: an add that
\* brings the buffer to the threshold flushes it before it returns.
C22_BufferWithinBatchSize == Len(hash_batch) <= batch_size

(***************************************************************************)
(* ContentOperations (operations/content_operations.py): long token lists. *)
(* Both chunk sizes are multiples of the smaller one, so a list is held as *)
(* its blocks of that many tuples: a chunk is a whole number of blocks.    *)
(***************************************************************************)
TupleBlock == ChunkSize(1000000)

\* The token-tuple lists that are stored, by their number of blocks (lists of
\* one, two and three chunks, all shorter than 1000000 tuples); the i-th block
\* of a list is written as the tuple of word i.
BlockCounts == {0, 1, 20, 21, 41}
Blocks(n) == [i \in 1..n |-> <<i, NoId, NoId, NoId>>]

\* The chunks of a list of blocks: len(token_tuples) is Len(blocks) * TupleBlock.
BlockChunks(blocks) ==
  ChunksOf(blocks, ChunkSize(Len(blocks) * TupleBlock) \div TupleBlock)

\* store_content_chunks(token_tuples, path_id) is called for the content of
\* path c: lines 33-46, the list is cut and a connection is taken.
BeginStoreChunks(c) ==
  /\ chunk_calls[c].pc = "idle"
  /\ IF c = 1 THEN TRUE ELSE chunk_calls[c - 1].pc # "idle"
  /\ \E n \in BlockCounts :
       chunk_calls' = [chunk_calls EXCEPT ![c] =
         [pc |-> IF BlockChunks(Blocks(n)) = <<>> THEN "committed" ELSE "insert",
          blocks |-> Blocks(n), written |-> 0]]
  /\ UNCHANGED <<tables, pipeline, hash_batch, hash_flush, word_flush, units, dispatcher>>

\* Lines 48-59: the INSERT of the next chunk, which takes the next id of the
\* table; after the last chunk the commit.
StoreChunk(c) ==
  /\ chunk_calls[c].pc = "insert"
  /\ LET chunks == BlockChunks(chunk_calls[c].blocks)
         i == chunk_calls[c].written + 1
     IN  /\ contents' = Append(contents, [path_id |-> c, data |-> Compress(chunks[i])])
         /\ chunk_calls' = [chunk_calls EXCEPT ![c] =
              [@ EXCEPT !.written = i,
                        !.pc = IF i = Len(chunks) THEN "committed" ELSE "insert"]]
  /\ UNCHANGED <<hashs, paths, words, words_paths, titles, pipeline, hash_batch,
                 hash_flush, word_flush, units, dispatcher>>

WordBatches == {<<"a">>, <<"b">>, <<"a", "b">>, <<"b", "a">>}

\* Lines 95-106: the SELECT of the words of the batch that exist; word_id_map
\* gets their ids.
FlushSelect(c) ==
  /\ word_flush[c].pc \in {"idle", "returned"}
  /\ \E batch \in WordBatches :
       word_flush' = [word_flush EXCEPT ![c] =
         [pc |-> "selected", batch |-> batch,
          ids |-> {<<w, WordId(words, w)>> : w \in Range(batch) \cap Range(words)}]]
  /\ UNCHANGED <<tables, pipeline, hash_batch, hash_flush, chunk_calls, units, dispatcher>>

\* Lines 108-129: INSERT .. ON CONFLICT (word) DO NOTHING RETURNING id, word for
\* each word the SELECT did not find, then the commit. A word that is in the
\* table by now returns no row and gets no entry in word_id_map.
FlushInsert(c) ==
  /\ word_flush[c].pc = "selected"
  /\ LET found == {p[1] : p \in word_flush[c].ids}
         new_words == SelectSeq(word_flush[c].batch, LAMBDA w : w \notin found)
         ws == EnsureWords(words, new_words)
     IN  /\ words' = ws
         /\ word_flush' = [word_flush EXCEPT ![c] =
              [@ EXCEPT !.pc = "returned",
                        !.ids = @ \cup {<<w, WordId(ws, w)>> :
                                          w \in Range(new_words) \ Range(words)}]]
  /\ UNCHANGED <<hashs, paths, contents, words_paths, titles, pipeline, hash_batch,
                 hash_flush, chunk_calls, units, dispatcher>>

\* C20: a flush inserts only the words that are absent and yields an id for
\* every word of its batch, the existing id for a word that is present, also
\* when the word was inserted by a concurrent flush between the lookup and the
\* insert of this flush; no word has two rows.
C20_FlushYieldsEveryId ==
  /\ \A i, j \in DOMAIN words : words[i] = words[j] => i = j
  /\ \A c \in Calls :
       word_flush[c].pc = "returned" =>
         \A w \in Range(word_flush[c].batch) :
           \E p \in word_flush[c].ids : p[1] = w /\ words[p[2]] = w

(***************************************************************************)
(* The folder dispatcher (pipeline/integrated_reader.py) and the reading   *)
(* of one file (reader/main_specify_method.py).                            *)
(***************************************************************************)
Routes == {"batch", "thread", "pool"}
NoFile == 0

\* What a file holds: the nested sequence of the files extracted from it.
Leaf == <<>>

RECURSIVE Chain(_)
Chain(n) == IF n = 0 THEN Leaf ELSE <<Chain(n - 1)>>

\* A plain file, and a container of a plain file and of a container nested
\* MaxNest deep.
Trees == {Leaf, <<Leaf, Chain(MaxNest - 1)>>}

ErrorResult == [err |-> TRUE, kids |-> <<>>]

\* The mutant of Read: the depth of the nesting is not looked at.
RECURSIVE ReadUnbounded(_, _)
ReadUnbounded(tree, depth) ==
  [err |-> FALSE, kids |-> [i \in DOMAIN tree |-> ReadUnbounded(tree[i], depth + 1)]]

\* main_specify_method_of_reading_the_file(file_info, depth): the result of the
\* file with, under Content.extracted_files, the results of its children read
\* at depth + 1; beyond MAX_RECURSION_DEPTH an error result.
RECURSIVE Read(_, _)
Read(tree, depth) ==
  IF depth > MAX_RECURSION_DEPTH
  THEN ErrorResult
  ELSE [err |-> FALSE, kids |-> [i \in DOMAIN tree |-> Read(tree[i], depth + 1)]]

\* A record of self.results: the result of the file, or of the file extracted
\* from it along path, with the reason of its error.
MkRecord(f, path, r, why) ==
  [file |-> f, path |-> path, err |-> r.err, why |-> why, kids |-> r.kids]

\* The value store_file_complete answers with, and its truth value: an instance
\* of the StorageResponse dataclass is true whatever its result.
StorageResponses == {"success", "duplicate", "error"}
IsTruthy(resp) == resp \in StorageResponses

\* _store_extracted_files(result, parent): a record for every extracted child,
\* and below a child only when storage is enabled.
RECURSIVE ExtractedFrom(_, _, _, _)
ExtractedFrom(f, path, kids, i) ==
  IF i > Len(kids) THEN <<>>
  ELSE <<MkRecord(f, Append(path, i), kids[i], "result")>>
       \o (IF enable_storage
           THEN ExtractedFrom(f, Append(path, i), kids[i].kids, 1)
           ELSE <<>>)
       \o ExtractedFrom(f, path, kids, i + 1)

\* Lines 826-848: the children of a collected result are recorded inside
\* "if self.enable_storage and result".
StoreExtracted(rec, resp) ==
  IF enable_storage /\ (IsTruthy(resp) \/ ~rec.err)
  THEN ExtractedFrom(rec.file, rec.path, rec.kids, 1)
  ELSE <<>>

RECURSIVE FilesFrom(_, _)
FilesFrom(R, i) ==
  IF i > Len(files) THEN <<>>
  ELSE (IF files[i] \in R THEN <<i>> ELSE <<>>) \o FilesFrom(R, i + 1)

\* _should_batch and _should_use_pool split the files.
batch_files == FilesFrom({"batch"}, 1)
individual_files == FilesFrom({"thread", "pool"}, 1)

\* Lines 571-576: batches of batch_size files.
BatchesOf(q) ==
  [k \in 1..((Len(q) + BatchSize - 1) \div BatchSize) |->
     SubSeq(q, (k - 1) * BatchSize + 1,
            IF k * BatchSize < Len(q) THEN k * BatchSize ELSE Len(q))]

NoOut == [kind |-> "none", res |-> <<>>]

NewTask(fs, route, batch) ==
  [files |-> fs, route |-> route, batch |-> batch, status |-> "running", out |-> NoOut]

ThreadTasks == {t \in DOMAIN tasks : tasks[t].route = "thread"}
PoolTasks == {t \in DOMAIN tasks : tasks[t].route = "pool"}
IsDone(t) == tasks[t].status = "done"

\* What a task can end with. _process_batch returns the list of its results or
\* raises what main_specify_method raises; _process_file_worker catches every
\* exception; a pool task can also fail in the pool.
Outcomes(task) ==
  IF task.batch
  THEN {[kind |-> "results", res |-> rs] :
          rs \in [DOMAIN task.files -> {Read(Leaf, 0), ErrorResult}]}
       \cup {[kind |-> k, res |-> <<>>] : k \in {"raised", "raised_timeout"}}
  ELSE {[kind |-> "result", res |-> <<r>>] :
          r \in {Read(tree, 0) : tree \in Trees} \cup {ErrorResult}}
       \cup (IF task.route = "pool" THEN {[kind |-> "failed", res |-> <<>>]} ELSE {})

\* The Metadata the dispatcher keeps for a task: the file, or for a batch
\* {"name": "Batch of N files"}.
TaskFile(t) == IF tasks[t].batch THEN NoFile ELSE tasks[t].files[1]

ErrorRecord(f, why) == MkRecord(f, <<>>, ErrorResult, why)

CountErr(recs) == Cardinality({i \in DOMAIN recs : recs[i].err})

\* The statistics after mains were appended for files of the run and children
\* for extracted files.
AddStats(st, mains, children) ==
  [st EXCEPT !.completed = @ + (Len(mains) - CountErr(mains))
                             + (Len(children) - CountErr(children)),
             !.failed = @ + CountErr(mains) + CountErr(children),
             !.extracted_files = @ + Len(children),
             !.total = @ + Len(children)]

\* _check_circuit_breaker.
check_circuit_breaker(rf) ==
  IF Len(rf) < FailureWindow
  THEN FALSE
  ELSE Cardinality({i \in (Len(rf) - FailureWindow + 1)..Len(rf) : rf[i]})
         >= FailureThreshold

\* Lines 861-862: recent_failures is cut to its last 2 * failure_window entries.
Trim(rf) ==
  IF Len(rf) > FailureWindow * 2
  THEN SubSeq(rf, Len(rf) - FailureWindow * 2 + 1, Len(rf))
  ELSE rf

RECURSIVE Flatten(_)
Flatten(qq) == IF qq = <<>> THEN <<>> ELSE Head(qq) \o Flatten(Tail(qq))

\* Lines 581-587: the batches are submitted to the thread executor, outside any
\* try: an exception of submit leaves process_folder.
SubmitBatches ==
  /\ dpc = "batches"
  /\ \/ /\ tasks' = [k \in DOMAIN BatchesOf(batch_files) |->
                      NewTask(BatchesOf(batch_files)[k], "thread", TRUE)]
        /\ dpc' = "individual"
     \/ /\ batch_files # <<>>
        /\ dpc' = "raised"
        /\ UNCHANGED tasks
  /\ UNCHANGED <<files, enable_storage, submitted_count, next_file, processed,
                 collected, results, recent_failures, dstats, breaker_warned, overdue>>
  /\ UNCHANGED <<tables, pipeline, batches, units>>

\* Lines 591-628: one individual file is submitted to the pool or to the thread
\* executor; when the submission raises, a failed result is recorded.
SubmitIndividual ==
  /\ dpc = "individual"
  /\ next_file <= Len(individual_files)
  /\ LET f == individual_files[next_file]
     IN  \/ /\ tasks' = Append(tasks, NewTask(<<f>>, files[f], FALSE))
            /\ submitted_count' = submitted_count + 1
            /\ UNCHANGED <<results, dstats>>
         \/ /\ results' = Append(results, ErrorRecord(f, "submit"))
            /\ dstats' = [dstats EXCEPT !.failed = @ + 1, !.total = @ + 1]
            /\ UNCHANGED <<tasks, submitted_count>>
  /\ next_file' = next_file + 1
  /\ UNCHANGED <<files, enable_storage, dpc, processed, collected, recent_failures,
                 breaker_warned, overdue>>
  /\ UNCHANGED <<tables, pipeline, batches, units>>

\* The files no task was submitted for, in the order of files.
RECURSIVE MissingFrom(_)
MissingFrom(i) ==
  IF i > Len(files) THEN <<>>
  ELSE (IF \E t \in DOMAIN tasks : i \in Range(tasks[t].files) THEN <<>> ELSE <<i>>)
       \o MissingFrom(i + 1)

\* Lines 632-684: when files are missing from the submitted ones, a failed
\* result is recorded for each of them, by each of the two loops.
Verify ==
  /\ dpc = "individual"
  /\ next_file > Len(individual_files)
  /\ LET missing == MissingFrom(1)
         recs == [i \in DOMAIN missing |-> ErrorRecord(missing[i], "not_submitted")]
     IN  IF Len(batch_files) + submitted_count # Len(files) /\ missing # <<>>
         THEN /\ results' = results \o recs \o recs
              /\ dstats' = [dstats EXCEPT !.failed = @ + 2 * Len(missing),
                                          !.total = @ + 2 * Len(missing)]
         ELSE UNCHANGED <<results, dstats>>
  /\ dpc' = "wait"
  /\ UNCHANGED <<files, enable_storage, tasks, submitted_count, next_file, processed,
                 collected, recent_failures, breaker_warned, overdue>>
  /\ UNCHANGED <<tables, pipeline, batches, units>>

\* A worker of the thread executor or of the pool ends its task. The step is
\* taken where process_folder looks at the tasks: while it submits and while it
\* takes results it does not see whether another task is done.
TaskRun(t) ==
  /\ dpc \in {"wait", "wait2", "force", "pool"}
  /\ tasks[t].status = "running"
  /\ \E out \in Outcomes(tasks[t]) :
       tasks' = [tasks EXCEPT ![t] = [@ EXCEPT !.status = "done", !.out = out]]
  /\ UNCHANGED <<files, enable_storage, dpc, submitted_count, next_file, processed,
                 collected, results, recent_failures, dstats, breaker_warned, overdue>>
  /\ UNCHANGED <<tables, pipeline, batches, units>>

\* Lines 707-749: the dispatcher waits until every thread future is done, with
\* no limit of time but the count of its iterations; when that runs out the
\* futures that are not done are left out.
WaitThreads ==
  /\ dpc = "wait"
  /\ \/ /\ \A t \in ThreadTasks : IsDone(t)
        /\ processed' = ThreadTasks
     \/ /\ \E t \in ThreadTasks : ~IsDone(t)
        /\ processed' = {t \in ThreadTasks : IsDone(t)}
  /\ dpc' = "collect"
  /\ UNCHANGED <<files, enable_storage, tasks, submitted_count, next_file, collected,
                 results, recent_failures, dstats, breaker_warned, overdue>>
  /\ UNCHANGED <<tables, pipeline, batches, units>>

\* Lines 774-816: the list a batch returned; every file of it is recorded, stored
\* when storage is enabled, and counted.
BatchRecords(t) ==
  [i \in DOMAIN tasks[t].files |->
     MkRecord(tasks[t].files[i], <<>>, tasks[t].out.res[i], "result")]

\* Lines 752-920: the result of one processed future is taken. The circuit
\* breaker is asked first and its answer is only logged.
CollectThread(t) ==
  /\ dpc = "collect"
  /\ t \in processed \ collected
  /\ collected' = collected \cup {t}
  /\ breaker_warned' = (breaker_warned \/ check_circuit_breaker(recent_failures))
  /\ \/ /\ tasks[t].out.kind = "results"
        /\ \E resp \in StorageResponses :
             LET mains == BatchRecords(t)
                 children ==
                   Flatten([i \in DOMAIN mains |->
                              IF enable_storage /\ IsTruthy(resp)
                              THEN ExtractedFrom(mains[i].file, <<>>, mains[i].kids, 1)
                              ELSE <<>>])
             IN  /\ results' = results \o mains \o children
                 /\ dstats' = AddStats(dstats, mains, children)
                 /\ recent_failures' =
                      Trim(recent_failures \o [i \in DOMAIN mains |-> mains[i].err])
     \/ /\ tasks[t].out.kind = "result"
        /\ \E resp \in StorageResponses :
             LET rec == MkRecord(TaskFile(t), <<>>, tasks[t].out.res[1], "result")
                 children == StoreExtracted(rec, resp)
             IN  /\ results' = Append(results, rec) \o children
                 /\ dstats' = AddStats(dstats, <<rec>>, children)
                 /\ recent_failures' = Trim(Append(recent_failures, rec.err))
     \/ /\ tasks[t].out.kind = "raised_timeout"
        /\ results' = Append(results, ErrorRecord(TaskFile(t), "timeout"))
        /\ dstats' = [dstats EXCEPT !.failed = @ + 1]
        /\ recent_failures' = Append(recent_failures, TRUE)
     \/ /\ tasks[t].out.kind = "raised"
        /\ results' = Append(results, ErrorRecord(TaskFile(t), "exception"))
        /\ dstats' = [dstats EXCEPT !.failed = @ + 1]
        /\ recent_failures' = Append(recent_failures, TRUE)
  /\ UNCHANGED <<files, enable_storage, dpc, tasks, submitted_count, next_file,
                 processed, overdue>>
  /\ UNCHANGED <<tables, pipeline, batches, units>>

\* Lines 922-926: the futures left out by the wait are looked for.
CollectDone ==
  /\ dpc = "collect"
  /\ processed \subseteq collected
  /\ dpc' = IF ThreadTasks \subseteq processed THEN "pool" ELSE "wait2"
  /\ UNCHANGED <<files, enable_storage, tasks, submitted_count, next_file, processed,
                 collected, results, recent_failures, dstats, breaker_warned, overdue>>
  /\ UNCHANGED <<tables, pipeline, batches, units>>

\* Lines 930-947: a remaining future that gets done during the second wait is
\* moved to processed_futures; its result is not taken.
WaitRemainingSeen(t) ==
  /\ dpc = "wait2"
  /\ t \in ThreadTasks \ processed
  /\ IsDone(t)
  /\ processed' = processed \cup {t}
  /\ UNCHANGED <<files, enable_storage, dpc, tasks, submitted_count, next_file,
                 collected, results, recent_failures, dstats, breaker_warned, overdue>>
  /\ UNCHANGED <<tables, pipeline, batches, units>>

\* Lines 930 and 949: the second wait ends when no future remains, or after
\* max_wait_time = 3600 s.
WaitRemainingEnd ==
  /\ dpc = "wait2"
  /\ \/ /\ ThreadTasks \subseteq processed
        /\ dpc' = "pool"
        /\ UNCHANGED overdue
     \/ /\ ~(ThreadTasks \subseteq processed)
        /\ dpc' = "force"
        /\ overdue' = overdue \cup {t \in ThreadTasks \ processed : ~IsDone(t)}
  /\ UNCHANGED <<files, enable_storage, tasks, submitted_count, next_file, processed,
                 collected, results, recent_failures, dstats, breaker_warned>>
  /\ UNCHANGED <<tables, pipeline, batches, units>>

\* Lines 952-1019, for one remaining future: done by now, its result is taken
\* (a list is recorded and then fails at result.get, which adds an error
\* result); not done, nothing is recorded.
ForcedRecords(t) ==
  IF ~IsDone(t) THEN <<>>
  ELSE IF tasks[t].out.kind = "results"
       THEN BatchRecords(t) \o <<ErrorRecord(TaskFile(t), "exception")>>
       ELSE IF tasks[t].out.kind = "result"
            THEN <<MkRecord(TaskFile(t), <<>>, tasks[t].out.res[1], "result")>>
            ELSE <<ErrorRecord(TaskFile(t), "exception")>>

ForcedChildren(t) ==
  IF IsDone(t) /\ tasks[t].out.kind = "result" /\ enable_storage
  THEN ExtractedFrom(TaskFile(t), <<>>, tasks[t].out.res[1].kids, 1)
  ELSE <<>>

\* The statistics lines 952-1019 count: the list of a batch is recorded without
\* being counted.
ForcedCounted(t) ==
  IF IsDone(t) /\ tasks[t].out.kind = "results"
  THEN <<ErrorRecord(TaskFile(t), "exception")>>
  ELSE ForcedRecords(t)

RECURSIVE ForceFrom(_, _, _)
ForceFrom(t, rs, st) ==
  IF t > Len(tasks) THEN <<rs, st>>
  ELSE IF t \in ThreadTasks \ processed
       THEN ForceFrom(t + 1, rs \o ForcedRecords(t) \o ForcedChildren(t),
                      AddStats(st, ForcedCounted(t), ForcedChildren(t)))
       ELSE ForceFrom(t + 1, rs, st)

ForceRemaining ==
  /\ dpc = "force"
  /\ results' = ForceFrom(1, results, dstats)[1]
  /\ dstats' = ForceFrom(1, results, dstats)[2]
  /\ processed' = processed \cup {t \in ThreadTasks : IsDone(t)}
  /\ collected' = collected \cup {t \in ThreadTasks \ processed : IsDone(t)}
  /\ dpc' = "pool"
  /\ UNCHANGED <<files, enable_storage, tasks, submitted_count, next_file,
                 recent_failures, breaker_warned, overdue>>
  /\ UNCHANGED <<tables, pipeline, batches, units>>

\* Lines 1047-1171: the pool tasks in the order of their submission;
\* wait_for_task answers the result of the task, or None after 3600 s.
CollectPool(t) ==
  /\ dpc = "pool"
  /\ t \in PoolTasks \ processed
  /\ \A u \in PoolTasks \ processed : t <= u
  /\ processed' = processed \cup {t}
  /\ collected' = collected \cup {t}
  /\ \/ /\ IsDone(t)
        /\ tasks[t].out.kind = "result"
        /\ \E resp \in StorageResponses :
             LET rec == MkRecord(TaskFile(t), <<>>, tasks[t].out.res[1], "result")
                 children == StoreExtracted(rec, resp)
             IN  /\ results' = Append(results, rec) \o children
                 /\ dstats' = AddStats(dstats, <<rec>>, children)
                 /\ recent_failures' = Append(recent_failures, rec.err)
        /\ UNCHANGED overdue
     \/ /\ IsDone(t)
        /\ tasks[t].out.kind = "failed"
        /\ results' = Append(results, ErrorRecord(TaskFile(t), "pool_failed"))
        /\ dstats' = [dstats EXCEPT !.failed = @ + 1]
        /\ recent_failures' = Append(recent_failures, TRUE)
        /\ UNCHANGED overdue
     \/ /\ ~IsDone(t)
        /\ results' = Append(results, ErrorRecord(TaskFile(t), "timeout"))
        /\ dstats' = [dstats EXCEPT !.failed = @ + 1]
        /\ recent_failures' = Append(recent_failures, TRUE)
        /\ overdue' = overdue \cup {t}
  /\ UNCHANGED <<files, enable_storage, dpc, tasks, submitted_count, next_file,
                 breaker_warned>>
  /\ UNCHANGED <<tables, pipeline, batches, units>>

\* Lines 1180-1262: process_folder returns self.results.
ReturnResults ==
  /\ dpc = "pool"
  /\ PoolTasks \subseteq processed
  /\ dpc' = "returned"
  /\ UNCHANGED <<files, enable_storage, tasks, submitted_count, next_file, processed,
                 collected, results, recent_failures, dstats, breaker_warned, overdue>>
  /\ UNCHANGED <<tables, pipeline, batches, units>>

(***************************************************************************)
(* IntegratedFileReader.shutdown and stop_processing: the thread executor  *)
(* and the process pool of the reader with the tasks submitted to them.    *)
(***************************************************************************)
\* A task is submitted to the thread executor or to the pool; it may be one
\* that never finishes. Submitting to an executor that was shut down, or to a
\* pool that was closed, raises and adds no task.
SubmitTask ==
  /\ Len(lifecycle.futures) < MaxFutures
  /\ \E route \in {"thread", "pool"}, hangs \in BOOLEAN :
       /\ IF route = "thread" THEN lifecycle.thread_executor = "open"
                              ELSE lifecycle.pool = "open"
       /\ lifecycle' = [lifecycle EXCEPT !.futures =
            Append(@, [route |-> route, state |-> "pending", hangs |-> hangs])]
  /\ UNCHANGED <<tables, pipeline, batches, dispatcher, beside_lifecycle>>

\* A worker takes a pending task, or the task it runs returns.
FutureStep(i) ==
  /\ \/ /\ lifecycle.futures[i].state = "pending"
        /\ lifecycle' = [lifecycle EXCEPT !.futures[i].state = "running"]
     \/ /\ lifecycle.futures[i].state = "running"
        /\ ~lifecycle.futures[i].hangs
        /\ lifecycle' = [lifecycle EXCEPT !.futures[i].state = "done"]
  /\ UNCHANGED <<tables, pipeline, batches, dispatcher, beside_lifecycle>>

\* shutdown is called, while process_folder runs (is_processing) or after it.
\* While it runs, stop_processing shuts the executor down without waiting,
\* cancels its pending futures, and closes the pools, which it then joins.
\* After it, the executor is shut down with wait=True.
ShutdownBegin ==
  /\ lifecycle.pc = "idle"
  /\ \E is_processing \in BOOLEAN :
       lifecycle' =
         IF is_processing
         THEN [lifecycle EXCEPT
                 !.pc = "stop_all_pools",
                 !.thread_executor = "shutdown",
                 !.pool = "closed",
                 !.futures = [i \in DOMAIN @ |->
                    IF @[i].route = "thread" /\ @[i].state = "pending"
                    THEN [@[i] EXCEPT !.state = "cancelled"] ELSE @[i]]]
         ELSE [lifecycle EXCEPT !.pc = "executor_wait",
                                !.thread_executor = "shutdown"]
  /\ UNCHANGED <<tables, pipeline, batches, dispatcher, beside_lifecycle>>

\* WorkerPool.join: pool.join() with no timeout returns when the workers of
\* the closed pool have run every task given to it; the pool is then
\* terminated. In stop_processing the wait of the executor follows, in
\* pool_manager.shutdown the end of shutdown.
PoolJoin ==
  /\ lifecycle.pc \in {"stop_all_pools", "pool_manager_shutdown"}
  /\ \A i \in DOMAIN lifecycle.futures :
       lifecycle.futures[i].route = "pool" => lifecycle.futures[i].state = "done"
  /\ lifecycle' = [lifecycle EXCEPT
       !.pool = "terminated",
       !.pc = IF @ = "stop_all_pools" THEN "executor_wait" ELSE "returned"]
  /\ UNCHANGED <<tables, pipeline, batches, dispatcher, beside_lifecycle>>

\* thread_executor.shutdown(wait=True) returns when no future of the executor
\* is pending or running; the managers are shut down next, the pools closed.
ExecutorWait ==
  /\ lifecycle.pc = "executor_wait"
  /\ \A i \in DOMAIN lifecycle.futures :
       lifecycle.futures[i].route = "thread" =>
         lifecycle.futures[i].state \in {"done", "cancelled"}
  /\ lifecycle' = [lifecycle EXCEPT
       !.pc = "pool_manager_shutdown",
       !.pool = IF @ = "open" THEN "closed" ELSE @]
  /\ UNCHANGED <<tables, pipeline, batches, dispatcher, beside_lifecycle>>

\* C23: after the shutdown signal the dispatcher waits a bounded time for the
\* tasks in flight and then abandons them: shutdown, once called, returns,
\* also when a task never finishes.
C23_ShutdownReturns == (lifecycle.pc # "idle") ~> (lifecycle.pc = "returned")

(***************************************************************************)
(* The extraction folder of a container (core/path_utils.py) as the        *)
(* extractors of reader/read_archive.py and reader/read_email.py use it;   *)
(* the extractions run in the workers of their tasks.                      *)
(***************************************************************************)
\* The names of the containers without their extension.
BaseNames == {"a", "b"}

\* get_extraction_name_file: the folder of the base name, or the first of
\* name_1, name_2, .. that does not exist when it is looked at. A folder is
\* held as <<name, counter>>, counter 0 for the bare name.
RECURSIVE FirstFree(_, _, _)
FirstFree(dirs, name, counter) ==
  IF <<name, counter>> \in dirs THEN FirstFree(dirs, name, counter + 1)
  ELSE <<name, counter>>

\* An extractor calls get_extraction_name_file for its container.
GetExtractionName(c) ==
  /\ staging.ext[c].pc \in {"idle", "extracted"}
  /\ Cardinality(staging.dirs) < MaxDirs
  /\ \E name \in BaseNames :
       staging' = [staging EXCEPT !.ext[c] =
         [pc |-> "named", extract_to |-> FirstFree(staging.dirs, name, 0)]]
  /\ UNCHANGED <<tables, pipeline, batches, dispatcher, beside_staging>>

\* The extractor then makes the folder, os.makedirs(extract_to, exist_ok=True),
\* and extracts into it.
MakeDirs(c) ==
  /\ staging.ext[c].pc = "named"
  /\ staging' = [staging EXCEPT !.dirs = @ \cup {staging.ext[c].extract_to},
                                !.ext[c].pc = "extracted"]
  /\ UNCHANGED <<tables, pipeline, batches, dispatcher, beside_staging>>

\* C24: each extraction has its own staging folder: two extractions, also two
\* that run at the same time for containers of the same base name, never use
\* the same folder path.
C24_OwnStagingDirectory ==
  \A c, d \in Calls :
    (c # d /\ staging.ext[c].pc # "idle" /\ staging.ext[d].pc # "idle") =>
      staging.ext[c].extract_to # staging.ext[d].extract_to

(***************************************************************************)
(* ContentProcessor (processors/content_processor.py): the tokenizer. A    *)
(* text is a sequence of characters: "a" and "B" stand for the word        *)
(* characters, "," for the punctuation marks, " " for the white space and  *)
(* "NUL" for the control characters sanitize_text removes. A text is       *)
(* shorter than the 10000 characters of a chunk.                           *)
(***************************************************************************)
Chars == {"a", "B", ",", " ", "NUL"}
TextsUpTo(n) == UNION {[1..k -> Chars] : k \in 0..n}
IsWordChar(ch) == ch \in {"a", "B"}
IsSpace(ch) == ch = " "

\* str.lower on a text.
Lower(text) == [i \in DOMAIN text |-> IF text[i] = "B" THEN "b" ELSE text[i]]

\* ValidationProcessor.sanitize_text: the control characters are dropped.
sanitize_text(text) == SelectSeq(text, LAMBDA ch : ch # "NUL")

\* _extract_regular_words on a text without entities: one token
\* <<word, punct_before, punct_after, spacing>> for each match of word_pattern,
\* here each maximal run of word characters. punct_before is what lies between
\* the end of the word before and the word, without its white space
\* (_normalize_punctuation); what lies between the word and the next is split
\* at its first white space into punct_after and spacing
\* (_separate_punctuation_and_spacing).
extract_regular_words(text) ==
  LET n == Len(text)
      starts == {i \in 1..n : IsWordChar(text[i]) /\ (i = 1 \/ ~IsWordChar(text[i - 1]))}
      ends == {i \in 1..n : IsWordChar(text[i]) /\ (i = n \/ ~IsWordChar(text[i + 1]))}
      EndOf(start) == CHOOSE e \in ends : e >= start /\ \A f \in ends : f >= start => e <= f
      position(start) == Max({0} \cup {e \in ends : e < start})
      punct_after_end(start) ==
        IF \E t \in starts : t > start
        THEN (CHOOSE t \in starts : t > start /\ \A u \in starts : u > start => t <= u) - 1
        ELSE n
      normalize_punctuation(q) == SelectSeq(q, LAMBDA ch : ~IsSpace(ch))
      separate(q) ==
        IF \A i \in DOMAIN q : ~IsSpace(q[i]) THEN <<q, <<>>>>
        ELSE LET punct_end == CHOOSE i \in DOMAIN q :
                                IsSpace(q[i]) /\ \A j \in 1..(i - 1) : ~IsSpace(q[j])
             IN  <<normalize_punctuation(SubSeq(q, 1, punct_end - 1)),
                   SubSeq(q, punct_end, Len(q))>>
      Token(start) ==
        LET after == separate(SubSeq(text, EndOf(start) + 1, punct_after_end(start)))
        IN  <<Lower(SubSeq(text, start, EndOf(start))),
              normalize_punctuation(SubSeq(text, position(start) + 1, start - 1)),
              after[1], after[2]>>
      RECURSIVE From(_)
      From(i) ==
        IF i > n THEN <<>>
        ELSE IF i \in starts THEN <<Token(i)>> \o From(i + 1) ELSE From(i + 1)
  IN  From(1)

\* _remove_overlaps on the matches sorted by their start: a match that begins
\* before the end of the last one kept replaces it when it is longer and is
\* dropped otherwise.
remove_overlaps(entities) ==
  LET RECURSIVE Filter(_, _, _)
      Filter(rest, filtered, last_end) ==
        IF rest = <<>> THEN filtered
        ELSE LET entity == Head(rest)
                 last == filtered[Len(filtered)]
             IN  IF entity.start < last_end
                 THEN IF entity.end - entity.start > last.end - last.start
                      THEN Filter(Tail(rest),
                                  [filtered EXCEPT ![Len(filtered)] = entity], entity.end)
                      ELSE Filter(Tail(rest), filtered, last_end)
                 ELSE Filter(Tail(rest), Append(filtered, entity), entity.end)
  IN  Filter(entities, <<>>, -1)

\* The patterns in pattern_order, the first three: 1 url, 2 email, 3 date.
PatternTypes == 1..3

\* A match of a pattern in a chunk: the span start..end of the text, its type.
Matches ==
  {m \in [start : 0..(MaxPos - 1), end : 1..MaxPos, type : PatternTypes] :
     m.start < m.end}

Overlap(x, y) == x.start < y.end /\ y.start < x.end

\* Lines 121-134: the matches of each pattern (finditer gives matches that do
\* not overlap each other) appended in pattern order, then sorted by start
\* with a stable sort.
SortedEntities(found) ==
  LET Before(x, y) == x.start < y.start \/ (x.start = y.start /\ x.type < y.type)
      RECURSIVE Sorted(_)
      Sorted(rest) ==
        IF rest = {} THEN <<>>
        ELSE LET first == CHOOSE x \in rest : \A y \in rest \ {x} : Before(x, y)
             IN  <<first>> \o Sorted(rest \ {first})
  IN  Sorted(found)

\* extract_words_with_punctuation on a text without entities.
ExtractWords ==
  /\ tokenizer.fn = "none"
  /\ \E text \in TextsUpTo(MaxText) :
       tokenizer' = [fn |-> "extract_words_with_punctuation", text |-> text,
                     tokens |-> extract_regular_words(sanitize_text(text)),
                     entities |-> <<>>, filtered |-> <<>>]
  /\ UNCHANGED <<tables, pipeline, batches, dispatcher, beside_tokenizer>>

\* _process_chunk_with_entities up to line 137, on a chunk in which the
\* patterns have up to MaxMatches matches.
RemoveOverlaps ==
  /\ tokenizer.fn = "none"
  /\ \E found \in SUBSET Matches :
       /\ Cardinality(found) <= MaxMatches
       /\ \A x, y \in found : (x # y /\ x.type = y.type) => ~Overlap(x, y)
       /\ tokenizer' = [fn |-> "_remove_overlaps", text |-> <<>>, tokens |-> <<>>,
                        entities |-> SortedEntities(found),
                        filtered |-> remove_overlaps(SortedEntities(found))]
  /\ UNCHANGED <<tables, pipeline, batches, dispatcher, beside_tokenizer>>

\* The tokens put together again: punct_before, word, punct_after and spacing
\* of each token in order.
RECURSIVE Joined(_)
Joined(tokens) ==
  IF tokens = <<>> THEN <<>>
  ELSE Head(tokens)[2] \o Head(tokens)[1] \o Head(tokens)[3] \o Head(tokens)[4]
         \o Joined(Tail(tokens))

\* C25: for any text, the tokens of extract_words_with_punctuation are in
\* document order, and punct_before, word, punct_after and spacing of the
\* tokens put together in order give the sanitized text back, its words in
\* lower case.
C25_TokensReproduceText ==
  tokenizer.fn = "extract_words_with_punctuation" =>
    Joined(tokenizer.tokens) = Lower(sanitize_text(tokenizer.text))

\* C26: of two matches that overlap the longer one is kept; of two of the same
\* length the one whose pattern is earlier in pattern_order; the matches kept
\* do not overlap each other.
C26_OverlapKeepsLongerThenPriority ==
  tokenizer.fn = "_remove_overlaps" =>
    LET kept == Range(tokenizer.filtered)
        all == Range(tokenizer.entities)
        length(x) == x.end - x.start
    IN  /\ \A x, y \in kept : x # y => ~Overlap(x, y)
        /\ \A x \in all \ kept, y \in kept :
             Overlap(x, y) =>
               /\ length(x) <= length(y)
               /\ length(x) = length(y) => y.type < x.type

(***************************************************************************)
(* How IntegratedFileReader ranks and routes a file of a folder            *)
(* (pipeline/integrated_reader.py), from its extension and its size.       *)
(***************************************************************************)
\* extensions_type_extract of reader/read_archive.py: the archive formats the
\* extractors handle.
extensions_type_extract == {".zip", ".tar", ".gz", ".bz2", ".rar", ".7z"}

ImageExtensions == {".png", ".jpg", ".jpeg", ".gif", ".bmp", ".tiff", ".webp"}

\* The extensions the reader tells apart, and one it does not know.
Extensions ==
  {".txt", ".json", ".xml", ".csv", ".yaml", ".yml", ".docx", ".xlsx", ".pptx",
   ".doc", ".xls", ".ppt", ".pdf", ".eml", ".msg", ".pst", ".dat"}
    \cup ImageExtensions \cup extensions_type_extract

\* Sizes in bytes around 100 KiB, 10 MiB and 50 MiB.
Sizes ==
  {0, 100 * 1024 - 1, 100 * 1024, 10 * 1024 * 1024, 10 * 1024 * 1024 + 1,
   50 * 1024 * 1024, 50 * 1024 * 1024 + 1}

\* The base priority of _calculate_file_priority, by the type of the file.
BasePriority(extension) ==
  IF extension \in {".txt", ".json", ".xml", ".csv", ".yaml", ".yml"} THEN 1
  ELSE IF extension \in {".docx", ".xlsx", ".pptx", ".doc", ".xls", ".ppt"} THEN 3
  ELSE IF extension \in {".pdf"} THEN 5
  ELSE IF extension \in ImageExtensions THEN 7
  ELSE IF extension \in {".zip", ".rar", ".7z", ".tar", ".gz", ".eml", ".msg", ".pst"} THEN 9
  ELSE 5

Min(a, b) == IF a <= b THEN a ELSE b

\* _calculate_file_priority: the size adds 2 above 10 MiB; the branch for
\* sizes above 50 MiB is an elif of that test.
calculate_file_priority(extension, size_bytes) ==
  LET priority == BasePriority(extension)
      adjusted ==
        IF size_bytes > 10 * 1024 * 1024 THEN priority + 2
        ELSE IF size_bytes > 50 * 1024 * 1024 THEN priority + 3
        ELSE priority
  IN  Min(adjusted, 10)

should_batch(extension, size_bytes) ==
  extension \in {".txt", ".json", ".xml", ".csv"} /\ size_bytes < 100 * 1024

should_use_pool(extension, size_bytes) ==
  IF size_bytes > 10 * 1024 * 1024 THEN TRUE
  ELSE IF extension \in {".pdf", ".png", ".jpg", ".jpeg", ".gif", ".bmp", ".tiff", ".webp"}
       THEN TRUE
  ELSE IF extension \in {".zip", ".rar", ".7z", ".tar", ".gz"} THEN TRUE
  ELSE FALSE

\* process_folder ranks a file.
CalculatePriority ==
  /\ router.fn = "none"
  /\ \E extension \in Extensions, size_bytes \in Sizes :
       router' = [fn |-> "_calculate_file_priority", extension |-> extension,
                  size_bytes |-> size_bytes,
                  priority |-> calculate_file_priority(extension, size_bytes),
                  route |-> "none"]
  /\ UNCHANGED <<tables, pipeline, batches, dispatcher, beside_router>>

\* process_folder routes a file: into a batch, else to the pool when
\* _should_use_pool says so, else to the thread executor.
RouteFile ==
  /\ router.fn = "none"
  /\ \E extension \in Extensions, size_bytes \in Sizes :
       router' = [fn |-> "process_folder", extension |-> extension,
                  size_bytes |-> size_bytes, priority |-> 0,
                  route |-> IF should_batch(extension, size_bytes) THEN "batch"
                            ELSE IF should_use_pool(extension, size_bytes) THEN "pool"
                            ELSE "thread"]
  /\ UNCHANGED <<tables, pipeline, batches, dispatcher, beside_router>>

\* C27: _calculate_file_priority returns min(base + 2 above 10 MiB + 1 more
\* above 50 MiB, 10): a file larger than 50 MiB gets base + 3, capped at 10.
C27_PriorityBySizeAndType ==
  router.fn = "_calculate_file_priority" =>
    router.priority =
      Min(BasePriority(router.extension)
            + (IF router.size_bytes > 10 * 1024 * 1024 THEN 2 ELSE 0)
            + (IF router.size_bytes > 50 * 1024 * 1024 THEN 1 ELSE 0), 10)

\* C28: a file that is not batched goes to the CPU executor (the pool) exactly
\* when it is larger than 10 MiB or its extension is pdf, an image format or
\* an archive format the extractors handle; every other one goes to the I/O
\* executor (the thread executor).
C28_PoolForLargeOrCpuBound ==
  (router.fn = "process_folder" /\ router.route # "batch") =>
    router.route =
      IF \/ router.size_bytes > 10 * 1024 * 1024
         \/ router.extension \in {".pdf"} \cup ImageExtensions \cup extensions_type_extract
      THEN "pool" ELSE "thread"

(***************************************************************************)
(* HashOperations.check_duplicate on its own, over a store that holds the  *)
(* rows of files stored before.                                            *)
(***************************************************************************)
\* A digest that is not a SHA-256 one: the 32 characters of an MD5 digest. The
\* digests of Digests have 64 characters.
ShortDigest == "md5"

\* A file came with the digest file_hash and was stored: store_hash gives the
\* id of the Hash row of its triple, inserting the row when there is none, and
\* store_metadata adds its Path row. No step of the storage looks at the
\* length of the digest.
StoreHashAndPath ==
  /\ Len(paths) < MaxCalls
  /\ \E file_hash \in Digests \cup {ShortDigest}, side_id \in Sides :
       LET found == SelectHashId(file_hash, SourceId, side_id)
           hash_id == IF found = NoId THEN NextHashId ELSE found
       IN  /\ hashs' = hashs \cup {[id |-> hash_id, hash |-> file_hash,
                                     source_id |-> SourceId, side_id |-> side_id]}
           /\ paths' = Append(paths, [hash_id |-> hash_id, file_status |-> "Unread"])
  /\ UNCHANGED <<contents, words, words_paths, titles, pipeline, batches, units,
                 dispatcher>>

\* check_duplicate is asked about a digest.
LookupDuplicate ==
  /\ \E file_hash \in Sentinels \cup Digests \cup {ShortDigest}, side_id \in Sides :
       lookup' = [file_hash |-> file_hash, side_id |-> side_id,
                  answer |-> check_duplicate(file_hash, SourceId, side_id)]
  /\ UNCHANGED <<tables, pipeline, batches, dispatcher, beside_lookup>>

\* C30: check_duplicate answers (False, None) for every digest that is empty,
\* "N/A", "SKIPPED_LARGE_FILE" or "ERROR", or whose length is not 64, whatever
\* rows the store holds.
C30_InvalidDigestNeverDuplicate ==
  (lookup.file_hash \in Sentinels \/ lookup.file_hash \notin Digests) =>
    lookup.answer = <<FALSE, NoId>>

(***************************************************************************)
(* The split of store_content_chunks by the numbers: a token list is held  *)
(* as its length, a chunk as the number of its tuples.                     *)
(***************************************************************************)
\* Lengths around the multiples of 50,000 up to 1,100,000, and 5,000.
TupleCounts ==
  {5000} \cup {n \in {k * 50000 + d : k \in 0..MaxFifties, d \in {-1, 0, 1}} : n >= 0}

\* Lines 38-41: token_tuples[i:i+chunk_size] for i in range(0, len, chunk_size),
\* as the lengths of the slices.
ChunkLengths(total) ==
  LET chunk_size == ChunkSize(total)
  IN  [k \in 1..((total + chunk_size - 1) \div chunk_size) |->
         IF k * chunk_size <= total THEN chunk_size
         ELSE total - (k - 1) * chunk_size]

\* store_content_chunks is given a list of total tuples and stores its chunks.
SplitTokens ==
  /\ ~chunker.called
  /\ \E total \in TupleCounts :
       chunker' = [called |-> TRUE, total |-> total, lengths |-> ChunkLengths(total)]
  /\ UNCHANGED <<tables, pipeline, batches, dispatcher, beside_chunker>>

\* The chunks of a split all have size tuples but the last, which has at most
\* size, and they hold the whole list.
SplitBy(size) ==
  LET lengths == chunker.lengths
      count == Len(lengths)
  IN  /\ \A k \in DOMAIN lengths :
           /\ lengths[k] \in 1..size
           /\ k < count => lengths[k] = size
      /\ chunker.total = IF count = 0 THEN 0 ELSE (count - 1) * size + lengths[count]

\* C32 as stated: chunks of 100,000 tuples for a list of at most 1,000,000
\* tuples, of 5,000 for a longer one; no chunk holds more than that size.
C32_ChunkSizeAtMostMillion ==
  chunker.called =>
    SplitBy(IF chunker.total <= 1000000 THEN 100000 ELSE 5000)

\* C32, amended: store_content_chunks splits the token tuples into chunks of
\* 100,000 tuples when the list has fewer than 1,000,000 tuples and into chunks
\* of 5,000 tuples when it has 1,000,000 or more; no stored chunk holds more
\* tuples than that size.
C32_ChunkSizeBelowMillion ==
  chunker.called =>
    SplitBy(IF chunker.total < 1000000 THEN 100000 ELSE 5000)

\* A list of exactly 1,000,000 tuples was split, into 200 chunks.
C32_Witness ==
  chunker.called /\ chunker.total = 1000000 /\ Len(chunker.lengths) = 200

(***************************************************************************)
(* StoragePipeline._retry_with_backoff.  Times are in milliseconds.        *)
(***************************************************************************)
\* What one call of the operation does: it returns ("none") or raises an error
\* whose text holds one of these words.
OperationOutcomes == {"none", "connection", "timeout", "locked", "syntax"}

NextDelayFlat(delay) == delay

\* delay *= 2
NextDelay(delay) == delay * 2

\* One turn of the loop "for attempt in range(max_retries + 1)": the operation
\* is called; its value is returned, or its error is kept as last_exception.
\* Before the last attempt a retryable error sleeps for delay and doubles it,
\* any other error is raised at once; the error of the last attempt is raised.
RetryAttempt ==
  /\ retry.pc = "ready"
  /\ \E e \in OperationOutcomes :
       LET attempt == retry.calls
           called  == [retry EXCEPT !.calls = @ + 1]
           failed  == [called EXCEPT !.errors = Append(@, e)]
       IN  retry' =
             IF e = "none" THEN [called EXCEPT !.pc = "returned"]
             ELSE IF attempt < max_retries /\ e \in retryable_errors
               THEN [failed EXCEPT !.slept = Append(@, retry.delay),
                                   !.delay = NextDelay(retry.delay)]
             ELSE [failed EXCEPT !.pc = "raised", !.raised = e]
  /\ UNCHANGED <<tables, pipeline, batches, dispatcher, beside_retry>>

\* C33: the operation is called again only after a retryable error; the sleeps
\* before the successive retries are 100 ms, 200 ms and 400 ms; there are at
\* most 3 retries; after the final attempt the last error is raised; an error
\* that is not retryable is raised at once, with no sleep.
C33_RetryWithBackoff ==
  LET retries == Len(retry.slept)
      made    == Len(retry.errors)
  IN  /\ retries <= 3
      /\ retry.slept = SubSeq(<<100, 200, 400>>, 1, retries)
      /\ retry.calls = retries + (IF retry.pc = "ready" THEN 0 ELSE 1)
      /\ \A i \in 1..retries : retry.errors[i] \in retryable_errors
      /\ retry.pc = "ready" => made = retries
      /\ retry.pc = "returned" => made = retries /\ retry.raised = "none"
      /\ retry.pc = "raised" =>
           /\ made = retries + 1
           /\ retry.raised = retry.errors[made]
           /\ retry.raised \in retryable_errors => retry.calls = 4

C33_Witness ==
  /\ retry.pc = "raised"
  /\ retry.calls = 4
  /\ retry.slept = <<100, 200, 400>>
  /\ retry.raised = "timeout"

(***************************************************************************)
(* BatchWordPathOperations: add_word_path_to_batch in one thread while     *)
(* flush_word_path_batch runs in another.                                  *)
(***************************************************************************)
\* add_word_path_to_batch: under _batch_lock the tuple (path_id, word_id,
\* word_count) is appended; the word ids are taken in order.
AddWordPathToBatch ==
  /\ Cardinality(word_path_batch.added) < MaxPairs
  /\ LET item == <<1, Cardinality(word_path_batch.added) + 1, 1>>
     IN  word_path_batch' = [word_path_batch EXCEPT !.batch = Append(@, item),
                                                    !.added = @ \cup {item}]
  /\ UNCHANGED <<tables, pipeline, batches, dispatcher, beside_word_path_batch>>

\* flush_word_path_batch, lines 184-201: nothing to do for an empty buffer;
\* else execute_batch sends the tuples the buffer holds (no lock is held), or
\* raises: rollback, and the function returns with the buffer as it is.
FlushExecute ==
  /\ word_path_batch.pc = "idle"
  /\ word_path_batch.batch # <<>>
  /\ \E e \in FlushErrors :
       word_path_batch' =
         IF e = "none"
         THEN [word_path_batch EXCEPT !.pc = "executed", !.sent = word_path_batch.batch]
         ELSE [word_path_batch EXCEPT !.failed = TRUE]
  /\ UNCHANGED <<tables, pipeline, batches, dispatcher, beside_word_path_batch>>

\* Line 203: conn.commit().
FlushCommit ==
  /\ word_path_batch.pc = "executed"
  /\ word_path_batch' =
       [word_path_batch EXCEPT !.pc = "committed",
                               !.committed = @ \cup Range(word_path_batch.sent)]
  /\ UNCHANGED <<tables, pipeline, batches, dispatcher, beside_word_path_batch>>

\* Lines 205-207: under _batch_lock the buffer is cleared, whatever it holds.
FlushClear ==
  /\ word_path_batch.pc = "committed"
  /\ word_path_batch' = [word_path_batch EXCEPT !.pc = "idle", !.batch = <<>>,
                                                !.sent = <<>>]
  /\ UNCHANGED <<tables, pipeline, batches, dispatcher, beside_word_path_batch>>

\* C35: no buffered item is lost: an item that was added to the buffer is in
\* the buffer until a flush has committed it, so an item added while a flush
\* is in progress, and every item of a flush that failed, is in the buffer or
\* persisted.
C35_NoBufferedItemLost ==
  \A item \in word_path_batch.added :
    item \in Range(word_path_batch.batch) \/ item \in word_path_batch.committed

(***************************************************************************)
(* WordOperations._word_cache (operations/word_operations.py).  rows are   *)
(* the committed rows of words, serial the last value of its id sequence,  *)
(* pending the rows a flush has inserted and not yet committed.            *)
(***************************************************************************)
CacheWords == {"a", "b"}

\* The id of the committed row of word w, NoId when there is none.
CommittedId(w) ==
  IF \E r \in word_cache.rows : r.word = w
  THEN (CHOOSE r \in word_cache.rows : r.word = w).id
  ELSE NoId

\* self._word_cache[word] = word_id for the pairs of word_id_map (the cache is
\* far from cache_max_size); replaced records that an entry got another id.
CacheUpdate(wc, word_id_map) ==
  [wc EXCEPT !.cache = [w \in CacheWords |->
                          IF \E p \in word_id_map : p[1] = w
                          THEN (CHOOSE p \in word_id_map : p[1] = w)[2]
                          ELSE @[w]],
             !.replaced = @ \/ \E p \in word_id_map :
                                 wc.cache[p[1]] # NoId /\ wc.cache[p[1]] # p[2]]

\* INSERT of the words in order: each takes the next value of the sequence.
RECURSIVE InsertedRows(_, _)
InsertedRows(new_words, serial) ==
  IF new_words = <<>> THEN {}
  ELSE {[id |-> serial + 1, word |-> Head(new_words)]}
         \cup InsertedRows(Tail(new_words), serial + 1)

\* get_or_create_word_id: the cached id if there is one; else the id of the
\* row, inserted and committed if it is missing, which is then cached. The
\* INSERT waits while a flush holds an uncommitted row of the word.
GetOrCreateWordId ==
  /\ \E word \in CacheWords :
       /\ word_cache.cache[word] = NoId
       /\ \A r \in word_cache.pending : r.word # word
       /\ word_cache.serial < MaxSerial
       /\ LET found == CommittedId(word)
              word_id == IF found # NoId THEN found ELSE word_cache.serial + 1
              stored == IF found # NoId THEN word_cache
                        ELSE [word_cache EXCEPT !.rows = @ \cup {[id |-> word_id, word |-> word]},
                                                !.serial = word_id]
          IN  word_cache' = CacheUpdate(stored, {<<word, word_id>>})
  /\ UNCHANGED <<tables, pipeline, batches, dispatcher, beside_word_cache>>

\* batch_insert_words: SELECT, INSERT of the missing words, commit, and then
\* the cache update.
BatchInsertWords ==
  /\ word_cache.pc = "idle"
  /\ \E batch \in WordBatches :
       /\ word_cache.serial + Len(batch) <= MaxSerial
       /\ LET new_words == SelectSeq(batch, LAMBDA w : CommittedId(w) = NoId)
              inserted == InsertedRows(new_words, word_cache.serial)
              stored == [word_cache EXCEPT !.rows = @ \cup inserted,
                                           !.serial = @ + Len(new_words)]
          IN  word_cache' =
                CacheUpdate(stored, {<<r.word, r.id>> : r \in stored.rows} \cap
                                    (Range(batch) \X (1..MaxSerial)))
  /\ UNCHANGED <<tables, pipeline, batches, dispatcher, beside_word_cache>>

\* flush_word_batch, lines 236-271: SELECT, INSERT of the missing words of the
\* buffer, and the cache update with word_id_map; nothing is committed yet.
FlushWordBatch ==
  /\ word_cache.pc = "idle"
  /\ \E batch \in WordBatches :
       /\ word_cache.serial + Len(batch) <= MaxSerial
       /\ LET new_words == SelectSeq(batch, LAMBDA w : CommittedId(w) = NoId)
              inserted == InsertedRows(new_words, word_cache.serial)
              existing == {<<w, CommittedId(w)>> : w \in Range(batch) \ Range(new_words)}
              sent == [word_cache EXCEPT !.pending = inserted,
                                         !.serial = @ + Len(new_words),
                                         !.pc = "cached"]
          IN  word_cache' =
                CacheUpdate(sent, existing \cup {<<r.word, r.id>> : r \in inserted})
  /\ UNCHANGED <<tables, pipeline, batches, dispatcher, beside_word_cache>>

\* Lines 273-286: conn.commit(); when it raises, conn.rollback() and return.
FlushWordCommit ==
  /\ word_cache.pc = "cached"
  /\ \E e \in FlushErrors :
       word_cache' =
         IF e = "none"
         THEN [word_cache EXCEPT !.rows = @ \cup word_cache.pending,
                                 !.pending = {}, !.pc = "idle"]
         ELSE [word_cache EXCEPT !.pending = {}, !.pc = "idle"]
  /\ UNCHANGED <<tables, pipeline, batches, dispatcher, beside_word_cache>>

\* C38: every entry of the word cache maps a word to the id of a committed
\* Word row with that text, also after a flush that failed and was rolled
\* back, and no entry is replaced by a different id. (Stated for the states in
\* which no flush is between its cache update and its commit.)
C38_CacheNamesCommittedRows ==
  word_cache.pc = "idle" =>
    /\ \A w \in CacheWords :
         word_cache.cache[w] # NoId => word_cache.cache[w] = CommittedId(w)
    /\ ~word_cache.replaced

(***************************************************************************)
(* CheckpointManager (database/utilities/checkpoint.py): the calls of      *)
(* mark_file_processed on one checkpoint, each in its own thread.          *)
(* checkpoint.processed_files is what the checkpoint file holds.           *)
(***************************************************************************)
AllFiles == 1..MaxMarks

\* mark_file_processed, lines 145-153: load_checkpoint reads the file (no lock
\* is held) and the path is added to the set that was read.
MarkLoad(c) ==
  /\ checkpoint.mark[c].pc \in {"idle", "returned"}
  /\ \E file_path \in AllFiles \ checkpoint.returned_true :
       checkpoint' = [checkpoint EXCEPT !.mark[c] =
         [pc |-> "loaded", file_path |-> file_path,
          processed_files |-> checkpoint.processed_files \cup {file_path}]]
  /\ UNCHANGED <<tables, pipeline, batches, dispatcher, beside_checkpoint>>

\* Lines 155-161: under self.lock the checkpoint read before is written to the
\* file, and the call returns True.
MarkWrite(c) ==
  /\ checkpoint.mark[c].pc = "loaded"
  /\ checkpoint' = [checkpoint EXCEPT !.processed_files = checkpoint.mark[c].processed_files,
                                      !.returned_true = @ \cup {checkpoint.mark[c].file_path},
                                      !.mark[c].pc = "returned"]
  /\ UNCHANGED <<tables, pipeline, batches, dispatcher, beside_checkpoint>>

\* resume_from_checkpoint: the files of all_files that are not in the
\* processed set of the checkpoint.
resume_from_checkpoint(all_files) == all_files \ checkpoint.processed_files

\* C39: concurrent mark_file_processed calls on one checkpoint lose no update:
\* once the calls for files f1..fn have all returned true, the processed set
\* of the checkpoint holds every fi and resume_from_checkpoint returns none of
\* them.
C39_NoMarkLost ==
  (\A c \in Calls : checkpoint.mark[c].pc # "loaded") =>
    /\ checkpoint.returned_true \subseteq checkpoint.processed_files
    /\ resume_from_checkpoint(AllFiles) \cap checkpoint.returned_true = {}

(***************************************************************************)
(* ManagedThread (core/concurrency/thread_manager.py): the thread of       *)
(* _controlled_run and the callers of pause, resume and stop.              *)
(***************************************************************************)
ThreadIds == 1..MaxThreads

TerminalStates == {"completed", "error", "stopped"}

\* start, and the first lines of _controlled_run: state = RUNNING.
StartThread(t) ==
  /\ ~managed[t].started
  /\ managed' = [managed EXCEPT ![t].started = TRUE, ![t].alive = TRUE,
                                ![t].state = "running"]
  /\ UNCHANGED <<tables, pipeline, batches, dispatcher, beside_managed>>

\* _controlled_run, lines 106-114: the target returned (COMPLETED) or raised
\* (ERROR with the message), and the thread ends; a target that does not call
\* check_pause ends whether or not pause_event is set.
ControlledRunEnd(t) ==
  /\ managed[t].alive
  /\ \E raised \in BOOLEAN :
       managed' = [managed EXCEPT ![t].alive = FALSE,
                                  ![t].state = IF raised THEN "error" ELSE "completed",
                                  ![t].error_msg = IF raised THEN "raised" ELSE @]
  /\ UNCHANGED <<tables, pipeline, batches, dispatcher, beside_managed>>

\* pause.
Pause(t) ==
  /\ managed' = [managed EXCEPT ![t].state = "paused", ![t].pause_event = FALSE]
  /\ UNCHANGED <<tables, pipeline, batches, dispatcher, beside_managed>>

\* resume.
Resume(t) ==
  /\ managed' = [managed EXCEPT ![t].state = "running", ![t].pause_event = TRUE]
  /\ UNCHANGED <<tables, pipeline, batches, dispatcher, beside_managed>>

\* stop: both events are set, the thread is joined for at most timeout
\* seconds (it has ended by then, returning or raising, or it has not), and
\* the state is set to STOPPED. The thread was started: join raises otherwise.
Stop(t) ==
  /\ managed[t].started
  /\ \E joined \in {"returned", "raised", "timeout"} :
       /\ ~managed[t].alive => joined = "returned"
       /\ managed' = [managed EXCEPT ![t].stop_event = TRUE, ![t].pause_event = TRUE,
                                     ![t].alive = @ /\ joined = "timeout",
                                     ![t].error_msg =
                                       IF managed[t].alive /\ joined = "raised"
                                       THEN "raised" ELSE @,
                                     ![t].state = "stopped"]
  /\ UNCHANGED <<tables, pipeline, batches, dispatcher, beside_managed>>

\* C40: the terminal states of a managed thread are absorbing: from COMPLETED,
\* ERROR or STOPPED no pause, resume or stop call moves the state to RUNNING
\* or PAUSED, and a recorded ERROR is not overwritten.
C40_TerminalStatesAbsorbing ==
  [][\A t \in ThreadIds :
       managed[t].state \in TerminalStates =>
         /\ managed'[t].state \notin {"running", "paused"}
         /\ managed[t].state = "error" => managed'[t].state = "error"]_vars

(***************************************************************************)
(* Properties of the dispatcher.                                           *)
(***************************************************************************)
\* The records of self.results for the file f itself.
RecordsOf(f) == {i \in DOMAIN results : results[i].file = f /\ results[i].path = <<>>}

\* The files a task was submitted for.
Submitted == UNION {Range(tasks[t].files) : t \in DOMAIN tasks}

\* C2: for every run of process_folder over N files, the result list holds
\* exactly one record for each input file, also when the submission of its
\* task fails, when its task times out and when its executor task (a file or
\* a batch of small files) raises.
C2_OneRecordPerFile ==
  dpc = "returned" => \A f \in DOMAIN files : Cardinality(RecordsOf(f)) = 1

\* C36: when process_folder returns, stats.completed + stats.failed equals the
\* number of records of the result list and equals stats.total, the original
\* files plus the extracted children, whatever succeeded, failed, was not
\* submitted or timed out.
C36_StatsMatchResults ==
  dpc = "returned" =>
    /\ dstats.completed + dstats.failed = Len(results)
    /\ dstats.completed + dstats.failed = dstats.total
    /\ dstats.total = Len(files) + dstats.extracted_files

\* C7: if a task has not completed within 3,600 s, the dispatcher records
\* exactly one Timeout error result for its file and goes on; stated for the
\* files of the tasks that were not done when a wait of 3600 s for them ended.
C7_OneTimeoutRecord ==
  dpc = "returned" =>
    \A t \in overdue : \A f \in Range(tasks[t].files) :
      /\ Cardinality(RecordsOf(f)) = 1
      /\ \A i \in RecordsOf(f) : results[i].why = "timeout"

\* C8: if the circuit breaker triggers during process_folder, dispatch does not
\* stop: every thread task and pool task is still collected, every submitted
\* file gets a result, and process_folder returns.
C8_BreakerDrainsQueue ==
  (breaker_warned /\ dpc = "returned") =>
    /\ DOMAIN tasks \subseteq collected
    /\ \A f \in Submitted : RecordsOf(f) # {}

\* C9: an exception raised while a worker processes a file never leaves the
\* executor for the dispatcher: it is caught at the worker boundary and turned
\* into an error result for that file, so every task of the thread executor
\* ends with a result for each of its files.
C9_NoExceptionLeavesWorker ==
  \A t \in ThreadTasks :
    IsDone(t) =>
      /\ tasks[t].out.kind \in {"result", "results"}
      /\ Len(tasks[t].out.res) = Len(tasks[t].files)

\* C10: for every container whose extraction produced children, the result list
\* holds exactly one record for each extracted child at every nesting level, in
\* addition to the container's own record, whether or not storage is enabled.
C10_OneRecordPerChild ==
  dpc = "returned" =>
    \A i \in DOMAIN results : \A k \in DOMAIN results[i].kids :
      Cardinality({j \in DOMAIN results :
                     /\ results[j].file = results[i].file
                     /\ results[j].path = Append(results[i].path, k)}) = 1

\* C11: a child of a container is submitted for processing only after the
\* Path row of the container has been persisted: when the results of the
\* children of a file exist, the dispatcher has taken the result of the file
\* and stored it.
C11_ChildrenAfterContainerPath ==
  \A t \in DOMAIN tasks :
    (IsDone(t) /\ \E i \in DOMAIN tasks[t].out.res : tasks[t].out.res[i].kids # <<>>) =>
      (enable_storage /\ t \in collected)

C19_BreakerCountsLastWindow ==
  check_circuit_breaker(recent_failures)
    <=> Cardinality({i \in DOMAIN recent_failures :
                       /\ i > Len(recent_failures) - FailureWindow
                       /\ recent_failures[i]}) >= FailureThreshold

\* C29: the small text files are grouped into batches of at most BatchSize
\* files, each batch is one task of the thread (I/O) executor, and a batch that
\* has run gives one result for each of its files, in the order of the files.
C29_BatchGivesResultPerFile ==
  \A t \in DOMAIN tasks :
    tasks[t].batch =>
      /\ Len(tasks[t].files) \in 1..BatchSize
      /\ tasks[t].route = "thread"
      /\ IsDone(t) =>
           /\ tasks[t].out.kind = "results"
           /\ DOMAIN tasks[t].out.res = DOMAIN tasks[t].files

InitTables ==
  /\ hashs = {}
  /\ paths = <<>>
  /\ contents = <<>>
  /\ words = <<>>
  /\ words_paths = {}
  /\ titles = <<>>

InitPipeline ==
  /\ call = [c \in Calls |-> IdleCall]
  /\ pool = {}
  /\ stats = [total |-> 0, completed |-> 0, failed |-> 0, duplicates |-> 0]
  /\ faults = 0

InitBatches ==
  /\ hash_batch = <<>>
  /\ hash_flush = [batch |-> <<>>, answer |-> "none", error |-> "none", attempts |-> 0]
  /\ chunk_calls = [c \in Calls |-> [pc |-> "idle", blocks |-> <<>>, written |-> 0]]
  /\ word_flush = [c \in Calls |-> [pc |-> "idle", batch |-> <<>>, ids |-> {}]]

\* initialize: the executor and the pools are created, nothing is submitted.
InitUnits ==
  /\ lifecycle = [pc |-> "idle", thread_executor |-> "open", pool |-> "open",
                  futures |-> <<>>]
  /\ staging = [dirs |-> {},
                ext |-> [c \in Calls |-> [pc |-> "idle", extract_to |-> <<>>]]]
  /\ tokenizer = [fn |-> "none", text |-> <<>>, tokens |-> <<>>, entities |-> <<>>,
                  filtered |-> <<>>]
  /\ router = [fn |-> "none", extension |-> "", size_bytes |-> 0, priority |-> 0,
               route |-> "none"]
  /\ lookup = [file_hash |-> "", side_id |-> 1, answer |-> <<FALSE, NoId>>]
  /\ chunker = [called |-> FALSE, total |-> 0, lengths |-> <<>>]
  /\ retry = [pc |-> "ready", calls |-> 0, delay |-> initial_delay, slept |-> <<>>,
              errors |-> <<>>, raised |-> "none"]
  /\ word_path_batch = [batch |-> <<>>, pc |-> "idle", sent |-> <<>>, committed |-> {},
                        added |-> {}, failed |-> FALSE]
  /\ word_cache = [rows |-> {}, serial |-> 0, cache |-> [w \in CacheWords |-> NoId],
                   pc |-> "idle", pending |-> {}, replaced |-> FALSE]
  /\ checkpoint = [processed_files |-> {}, returned_true |-> {},
                   mark |-> [c \in Calls |-> [pc |-> "idle", file_path |-> 0,
                                              processed_files |-> {}]]]
  /\ managed = [t \in ThreadIds |->
                  [state |-> "created", alive |-> FALSE, started |-> FALSE,
                   pause_event |-> TRUE, stop_event |-> FALSE, error_msg |-> "none"]]

\* process_folder up to line 549: the statistics and the result list of a run
\* over the files fs.
InitRun(fs) ==
  /\ files = fs
  /\ tasks = <<>>
  /\ submitted_count = 0
  /\ next_file = 1
  /\ processed = {}
  /\ collected = {}
  /\ results = <<>>
  /\ recent_failures = <<>>
  /\ dstats = [total |-> Len(fs), completed |-> 0, failed |-> 0, extracted_files |-> 0]
  /\ breaker_warned = FALSE
  /\ overdue = {}

\* The storage pipeline on its own: no folder is being processed.
Init ==
  /\ InitTables
  /\ InitPipeline
  /\ enable_concurrency \in BOOLEAN
  /\ InitBatches
  /\ InitUnits
  /\ InitRun(<<>>)
  /\ enable_storage = FALSE
  /\ dpc = "returned"

Next ==
  \/ \E c \in Calls : Start(c)
  \/ \E c \in Calls : CheckDuplicate(c)
  \/ \E c \in Calls : StoreHashSelect(c)
  \/ \E c \in Calls : StoreHashInsert(c)
  \/ \E c \in Calls : StoreMetadata(c)
  \/ \E c \in Calls : StoreContent(c)
  \/ \E c \in Calls : StoreTitle(c)
  \/ \E c \in Calls : UpdateStatus(c)
  \/ \E t \in pool : PoolRun(t)

Spec == Init /\ [][Next]_vars

NextBatchHash ==
  \/ AddHashToBatch
  \/ FlushHashBatch

SpecBatchHash == Init /\ [][NextBatchHash]_vars

\* A run of process_folder over one to MaxFiles files, with the storage
\* pipeline the reader builds.
InitDispatch ==
  /\ InitTables
  /\ InitPipeline
  /\ enable_concurrency = TRUE
  /\ InitBatches
  /\ InitUnits
  /\ \E n \in 1..MaxFiles : \E fs \in [1..n -> Routes] : InitRun(fs)
  /\ enable_storage \in BOOLEAN
  /\ dpc = "batches"

NextDispatch ==
  \/ SubmitBatches
  \/ SubmitIndividual
  \/ Verify
  \/ \E t \in DOMAIN tasks : TaskRun(t)
  \/ WaitThreads
  \/ \E t \in DOMAIN tasks : CollectThread(t)
  \/ CollectDone
  \/ \E t \in DOMAIN tasks : WaitRemainingSeen(t)
  \/ WaitRemainingEnd
  \/ ForceRemaining
  \/ \E t \in DOMAIN tasks : CollectPool(t)
  \/ ReturnResults

SpecDispatch == InitDispatch /\ [][NextDispatch]_vars

NextContent ==
  \/ \E c \in Calls : BeginStoreChunks(c)
  \/ \E c \in Calls : StoreChunk(c)

SpecContent == Init /\ [][NextContent]_vars

NextWordBatch ==
  \/ \E c \in Calls : FlushSelect(c)
  \/ \E c \in Calls : FlushInsert(c)

SpecWordBatch == Init /\ [][NextWordBatch]_vars

\* The workers of the executor and of the pool keep running their tasks, and
\* the thread that called shutdown keeps running it.
NextShutdown ==
  \/ SubmitTask
  \/ \E i \in DOMAIN lifecycle.futures : FutureStep(i)
  \/ ShutdownBegin
  \/ PoolJoin
  \/ ExecutorWait

NextStaging ==
  \/ \E c \in Calls : GetExtractionName(c)
  \/ \E c \in Calls : MakeDirs(c)

SpecStaging == Init /\ [][NextStaging]_vars

NextTokenizer ==
  \/ ExtractWords
  \/ RemoveOverlaps

SpecTokenizer == Init /\ [][NextTokenizer]_vars

NextRouter ==
  \/ CalculatePriority
  \/ RouteFile

SpecRouter == Init /\ [][NextRouter]_vars

NextLookup ==
  \/ StoreHashAndPath
  \/ LookupDuplicate

SpecLookup == Init /\ [][NextLookup]_vars

NextChunker ==
  \/ SplitTokens

SpecChunker == Init /\ [][NextChunker]_vars

NextRetry ==
  \/ RetryAttempt

SpecRetry == Init /\ [][NextRetry]_vars

NextWordPathBatch ==
  \/ AddWordPathToBatch
  \/ FlushExecute
  \/ FlushCommit
  \/ FlushClear

SpecWordPathBatch == Init /\ [][NextWordPathBatch]_vars

NextWordCache ==
  \/ GetOrCreateWordId
  \/ BatchInsertWords
  \/ FlushWordBatch
  \/ FlushWordCommit

SpecWordCache == Init /\ [][NextWordCache]_vars

NextCheckpoint ==
  \/ \E c \in Calls : MarkLoad(c)
  \/ \E c \in Calls : MarkWrite(c)

SpecCheckpoint == Init /\ [][NextCheckpoint]_vars

NextManaged ==
  \/ \E t \in ThreadIds : StartThread(t)
  \/ \E t \in ThreadIds : ControlledRunEnd(t)
  \/ \E t \in ThreadIds : Pause(t)
  \/ \E t \in ThreadIds : Resume(t)
  \/ \E t \in ThreadIds : Stop(t)

SpecManaged == Init /\ [][NextManaged]_vars

SpecShutdown ==
  /\ Init /\ [][NextShutdown]_vars
  /\ \A i \in 1..MaxFutures : WF_vars(i \in DOMAIN lifecycle.futures /\ FutureStep(i))
  /\ WF_vars(PoolJoin)
  /\ WF_vars(ExecutorWait)

====
